---- MODULE Spec2Model ----
(***************************************************************************)
(* Model of the telemetry engine of AI-Incident-Resolver:                  *)
(*   mcp-server/telemetry_store.py  TelemetryStore and the OTLP/JSON       *)
(*                                  decoders                               *)
(*   mcp-server/file_watcher.py     TelemetryFileHandler, TelemetryWatcher *)
(*   mcp-server/otlp_receiver.py    the protobuf decoders                  *)
(*                                                                         *)
(* Specifications:                                                         *)
(*   Spec       the store driven by one caller (add_*, clear, queries)     *)
(*   SpecConc   the store driven by concurrent threads, one step per       *)
(*              statement executed under or outside TelemetryStore._lock   *)
(*   SpecWatch  the file watcher tailing one growing file                  *)
(*   SpecDecode the decoders of both ingestion paths feeding the store     *)
(*                                                                         *)
(* Python values: None is "None" among strings and 0 among times (times    *)
(* start at 1); Python's truthiness test `if x:` is Truthy(x).             *)
(***************************************************************************)
EXTENDS Integers, Sequences, FiniteSets, TLC

VARIABLES
    spans, logs, metrics, services,   \* TelemetryStore._spans/_logs/_metrics/_services
    hSpans, hLogs, hMetrics,          \* history: every entity inserted since construction or the last clear()
    ret,                              \* the value the last query returned to its caller
    lock, pc, loc, committed, calls,  \* SpecConc: TelemetryStore._lock, thread positions and locals
    file, handler, observer, running, hlock, wpc, wloc, wghost,   \* SpecWatch
    din, dout,                        \* SpecDecode: last decoder input and output
    receiver, rpc                     \* SpecWire: the OTLPReceiver and its last calls

storeVars == <<spans, logs, metrics, services>>
histVars  == <<hSpans, hLogs, hMetrics>>
concVars  == <<lock, pc, loc, committed, calls>>
watchVars == <<file, handler, observer, running, hlock, wpc, wloc, wghost>>
decVars   == <<din, dout, receiver, rpc>>
vars == <<spans, logs, metrics, services, hSpans, hLogs, hMetrics, ret,
          lock, pc, loc, committed, calls,
          file, handler, observer, running, hlock, wpc, wloc, wghost, din, dout,
          receiver, rpc>>

----------------------------------------------------------------------------
(* Bounds *)
MaxSpans   == 2      \* max_spans passed to TelemetryStore(...)
MaxLogs    == 2      \* max_logs
MaxMetrics == 2      \* max_metrics
MaxAdds    == 3      \* add_* calls issued in one behaviour of Spec
MaxLimit   == 2      \* largest `limit` a caller passes
MaxCalls   == 3      \* store calls issued in one behaviour of SpecConc
MaxDocs    == 1      \* JSON lines the exporter writes to the watched file
MaxDecodes == 2      \* records decoded in one behaviour of SpecDecode
MaxExports == 2      \* Export calls received in one behaviour of SpecWire
AnalyzeErrorLimit == 1   \* limit=100 analyze_incident passes to get_errors, scaled to the store
AnalyzeSpanLimit  == 2   \* limit=200 analyze_incident passes to get_recent_spans/logs, scaled

----------------------------------------------------------------------------
(* Python helpers *)
None == "None"
NoTime == 0

Truthy(x) == x # None /\ x # ""
TruthyTime(t) == t # NoTime

Min(a, b) == IF a < b THEN a ELSE b
Max(a, b) == IF a > b THEN a ELSE b

\* seq[:n] for a Python list
PySliceTo(seq, n) ==
    IF n >= 0 THEN SubSeq(seq, 1, Min(n, Len(seq)))
              ELSE SubSeq(seq, 1, Max(Len(seq) + n, 0))

\* a bounded append that drops the newest retained entry instead of the oldest
DequeAppend_dropNewest(dq, x, cap) ==
    IF cap = 0 THEN dq
    ELSE IF Len(dq) >= cap THEN Append(SubSeq(dq, 1, Len(dq) - 1), x)
    ELSE Append(dq, x)

\* collections.deque(maxlen=cap).append(x)
DequeAppend(dq, x, cap) ==
    IF cap = 0 THEN dq
    ELSE IF Len(dq) >= cap THEN Append(Tail(dq), x)
    ELSE Append(dq, x)

\* list.sort(key=..., reverse=desc) on a list whose sort keys are `keys`:
\* the sort is stable, also with reverse=True, so equal keys keep their order
StableSort(seq, keys, desc) ==
    LET Before(j, i) == \/ (IF desc THEN keys[j] > keys[i] ELSE keys[j] < keys[i])
                        \/ (keys[j] = keys[i] /\ j < i)
        rank(i) == Cardinality({j \in DOMAIN seq : Before(j, i)}) + 1
    IN [r \in DOMAIN seq |-> seq[CHOOSE i \in DOMAIN seq : rank(i) = r]]

Range(seq) == {seq[i] : i \in DOMAIN seq}

----------------------------------------------------------------------------
(* Canonical model: Span, LogRecord, MetricDataPoint (the fields the        *)
(* store's operations read)                                                 *)
Span(tid, svc, t, st) ==
    [trace_id |-> tid, service_name |-> svc, start_time |-> t, status_code |-> st]
LogRecord(svc, sev, t) ==
    [service_name |-> svc, severity |-> sev, timestamp |-> t]
MetricDataPoint(svc, nm, t) ==
    [service_name |-> svc, name |-> nm, timestamp |-> t]

\* Span.is_error
SpanIsError(s) == s.status_code = "ERROR"
\* LogRecord.is_error
\* is_error of a log record that only looks for ERROR
LogIsError_errorOnly(l) == l.severity = "ERROR"
LogIsError(l) == l.severity \in {"ERROR", "FATAL"}

(* Entities the producers hand to the store *)
SpanInputs == { Span("T1", "A", 2, "OK"),    Span("T1", "A", 1, "ERROR"),
                Span("T2", "A", 2, "ERROR"), Span("T2", "B", 1, "OK") }
LogInputs == { LogRecord("A", "INFO", 1), LogRecord("A", "ERROR", 2),
               LogRecord("B", "FATAL", 2) }
MetricInputs == { MetricDataPoint("A", "cpu", 1), MetricDataPoint("B", "cpu", 2),
                  MetricDataPoint("A", "mem", 2) }

(* Arguments the callers pass to the queries *)
DefaultLimit == 100
Limits       == -1 .. MaxLimit
ServiceArgs  == {None, "A", "B"}
SeverityArgs == {None, "ERROR"}
NameArgs     == {None, "cpu"}
SinceArgs    == {NoTime, 2}
TraceArgs    == {"T1", "T2", "T9"}
MinutesArgs  == {1, 2}          \* since_minutes
\* the arguments dict of the tool get_recent_traces: `limit` may be missing
\* (hasLimit FALSE), `service` missing is None
TraceArguments ==
    { [hasLimit |-> h, limit |-> l, service |-> sv, errors_only |-> e] :
        h \in BOOLEAN, l \in {-1, 1}, sv \in {None, "", "A"}, e \in BOOLEAN }
Clock        == {3, 4}          \* readings of datetime.utcnow() during a query

----------------------------------------------------------------------------
(* TelemetryStore *)

\* TelemetryStore.__init__
StoreInit ==
    /\ spans = <<>> /\ logs = <<>> /\ metrics = <<>> /\ services = {}
    /\ hSpans = <<>> /\ hLogs = <<>> /\ hMetrics = <<>>

NoRet == [op |-> "none"]
Adds == Len(hSpans) + Len(hLogs) + Len(hMetrics)

\* the other specifications' variables, at rest
ConcIdle ==
    /\ lock = None /\ pc = <<>> /\ loc = <<>> /\ committed = <<>> /\ calls = 0
WatchIdle ==
    /\ file = <<>> /\ handler = [exists |-> FALSE, positions |-> <<>>]
    /\ observer = FALSE /\ running = FALSE
    /\ hlock = None /\ wpc = <<>> /\ wloc = <<>> /\ wghost = <<>>
\* OTLPReceiver.__init__, and the module global `otlp_receiver = None`
NoReceiver == [configured |-> FALSE, server |-> "none", running |-> FALSE]
NoRpc == [startRaised |-> FALSE, stopped |-> FALSE,
          exports |-> 0, batch |-> <<>>, raised |-> FALSE, before |-> 0]
WireIdle == receiver = NoReceiver /\ rpc = NoRpc
DecIdle ==
    /\ din = [kind |-> "none"] /\ dout = [ok |-> FALSE, entity |-> None]
    /\ WireIdle

\* get_recent_spans with an exclusive `since` bound
RecentSpans_sinceExclusive(copy, limit, service, errors_only, since) ==
    LET f1 == IF Truthy(service)
              THEN SelectSeq(copy, LAMBDA s : s.service_name = service) ELSE copy
        f2 == IF errors_only THEN SelectSeq(f1, SpanIsError) ELSE f1
        f3 == IF TruthyTime(since)
              THEN SelectSeq(f2, LAMBDA s : s.start_time > since) ELSE f2
        sorted == StableSort(f3, [i \in DOMAIN f3 |-> f3[i].start_time], TRUE)
    IN PySliceTo(sorted, limit)

\* the filters and the ordering of get_recent_spans, applied to the copy
RecentSpans(copy, limit, service, errors_only, since) ==
    LET f1 == IF Truthy(service)
              THEN SelectSeq(copy, LAMBDA s : s.service_name = service) ELSE copy
        f2 == IF errors_only THEN SelectSeq(f1, SpanIsError) ELSE f1
        f3 == IF TruthyTime(since)
              THEN SelectSeq(f2, LAMBDA s : s.start_time >= since) ELSE f2
        sorted == StableSort(f3, [i \in DOMAIN f3 |-> f3[i].start_time], TRUE)
    IN PySliceTo(sorted, limit)

\* get_recent_logs that leaves the service filter out
RecentLogs_anyService(copy, limit, service, severity, errors_only, since) ==
    LET f2 == IF Truthy(severity)
              THEN SelectSeq(copy, LAMBDA l : l.severity = severity) ELSE copy
        f3 == IF errors_only THEN SelectSeq(f2, LogIsError) ELSE f2
        f4 == IF TruthyTime(since)
              THEN SelectSeq(f3, LAMBDA l : l.timestamp >= since) ELSE f3
        sorted == StableSort(f4, [i \in DOMAIN f4 |-> f4[i].timestamp], TRUE)
    IN PySliceTo(sorted, limit)

\* the filters and the ordering of get_recent_logs
RecentLogs(copy, limit, service, severity, errors_only, since) ==
    LET f1 == IF Truthy(service)
              THEN SelectSeq(copy, LAMBDA l : l.service_name = service) ELSE copy
        f2 == IF Truthy(severity)
              THEN SelectSeq(f1, LAMBDA l : l.severity = severity) ELSE f1
        f3 == IF errors_only THEN SelectSeq(f2, LogIsError) ELSE f2
        f4 == IF TruthyTime(since)
              THEN SelectSeq(f3, LAMBDA l : l.timestamp >= since) ELSE f3
        sorted == StableSort(f4, [i \in DOMAIN f4 |-> f4[i].timestamp], TRUE)
    IN PySliceTo(sorted, limit)

\* the filters and the ordering of get_recent_metrics
RecentMetrics(copy, limit, service, metric_name, since) ==
    LET f1 == IF Truthy(service)
              THEN SelectSeq(copy, LAMBDA m : m.service_name = service) ELSE copy
        f2 == IF Truthy(metric_name)
              THEN SelectSeq(f1, LAMBDA m : m.name = metric_name) ELSE f1
        f3 == IF TruthyTime(since)
              THEN SelectSeq(f2, LAMBDA m : m.timestamp >= since) ELSE f2
        sorted == StableSort(f3, [i \in DOMAIN f3 |-> f3[i].timestamp], TRUE)
    IN PySliceTo(sorted, limit)

\* get_trace sorting latest first
TraceSpans_descending(sp, trace_id) ==
    LET sel == SelectSeq(sp, LAMBDA s : s.trace_id = trace_id)
    IN StableSort(sel, [i \in DOMAIN sel |-> sel[i].start_time], TRUE)

\* the selection and the ordering of get_trace
TraceSpans(sp, trace_id) ==
    LET sel == SelectSeq(sp, LAMBDA s : s.trace_id = trace_id)
    IN StableSort(sel, [i \in DOMAIN sel |-> sel[i].start_time], FALSE)

\* add_span with the registry rebuilt from the retained spans
add_span_evictsName(span) ==
    /\ spans' = DequeAppend(spans, span, MaxSpans)
    /\ services' = { spans'[i].service_name : i \in DOMAIN spans' }
                      \cup { logs[i].service_name : i \in DOMAIN logs }
                      \cup { metrics[i].service_name : i \in DOMAIN metrics }
    /\ hSpans' = Append(hSpans, span)
    /\ UNCHANGED <<logs, metrics, hLogs, hMetrics>>

\* TelemetryStore.add_span
add_span(span) ==
    /\ spans' = DequeAppend(spans, span, MaxSpans)
    /\ services' = services \cup {span.service_name}
    /\ hSpans' = Append(hSpans, span)
    /\ UNCHANGED <<logs, metrics, hLogs, hMetrics>>

\* TelemetryStore.add_log
add_log(log) ==
    /\ logs' = DequeAppend(logs, log, MaxLogs)
    /\ services' = services \cup {log.service_name}
    /\ hLogs' = Append(hLogs, log)
    /\ UNCHANGED <<spans, metrics, hSpans, hMetrics>>

\* TelemetryStore.add_metric
add_metric(metric) ==
    /\ metrics' = DequeAppend(metrics, metric, MaxMetrics)
    /\ services' = services \cup {metric.service_name}
    /\ hMetrics' = Append(hMetrics, metric)
    /\ UNCHANGED <<spans, logs, hSpans, hLogs>>

\* TelemetryStore.clear
clear ==
    /\ spans' = <<>> /\ logs' = <<>> /\ metrics' = <<>> /\ services' = {}
    /\ hSpans' = <<>> /\ hLogs' = <<>> /\ hMetrics' = <<>>

\* TelemetryStore.get_recent_spans
get_recent_spans(limit, service, errors_only, since) ==
    /\ ret' = [op |-> "get_recent_spans",
               args |-> [limit |-> limit, service |-> service,
                         errors_only |-> errors_only, since |-> since],
               value |-> RecentSpans(spans, limit, service, errors_only, since)]
    /\ UNCHANGED <<storeVars, histVars>>

\* TelemetryStore.get_recent_logs
get_recent_logs(limit, service, severity, errors_only, since) ==
    /\ ret' = [op |-> "get_recent_logs",
               args |-> [limit |-> limit, service |-> service, severity |-> severity,
                         errors_only |-> errors_only, since |-> since],
               value |-> RecentLogs(logs, limit, service, severity, errors_only, since)]
    /\ UNCHANGED <<storeVars, histVars>>

\* TelemetryStore.get_recent_metrics
get_recent_metrics(limit, service, metric_name, since) ==
    /\ ret' = [op |-> "get_recent_metrics",
               args |-> [limit |-> limit, service |-> service,
                         metric_name |-> metric_name, since |-> since],
               value |-> RecentMetrics(metrics, limit, service, metric_name, since)]
    /\ UNCHANGED <<storeVars, histVars>>

\* get_trace that sorts the retained spans themselves
get_trace_sortsStore(trace_id) ==
    /\ ret' = [op |-> "get_trace", args |-> [trace_id |-> trace_id],
               value |-> TraceSpans(spans, trace_id)]
    /\ spans' = StableSort(spans, [i \in DOMAIN spans |-> spans[i].start_time], FALSE)
    /\ UNCHANGED <<logs, metrics, services, histVars>>

\* TelemetryStore.get_trace
get_trace(trace_id) ==
    /\ ret' = [op |-> "get_trace", args |-> [trace_id |-> trace_id],
               value |-> TraceSpans(spans, trace_id)]
    /\ UNCHANGED <<storeVars, histVars>>

\* the dict get_errors builds from the two result lists
ErrorsValue_spansOnly(error_spans, error_logs, since) ==
    [error_spans |-> error_spans, error_logs |-> error_logs,
     summary |-> [total_error_spans |-> Len(error_spans),
                  total_error_logs |-> Len(error_logs),
                  affected_services |->
                      { error_spans[i].service_name : i \in DOMAIN error_spans },
                  since |-> since]]

ErrorsValue(error_spans, error_logs, since) ==
    [error_spans |-> error_spans, error_logs |-> error_logs,
     summary |-> [total_error_spans |-> Len(error_spans),
                  total_error_logs |-> Len(error_logs),
                  affected_services |->
                      { error_spans[i].service_name : i \in DOMAIN error_spans }
                      \cup { error_logs[i].service_name : i \in DOMAIN error_logs },
                  since |-> since]]

\* TelemetryStore.get_errors, with utcnow() reading `now`
Errors(limit, since_minutes, now) ==
    LET since == now - since_minutes IN
    ErrorsValue(RecentSpans(spans, limit, None, TRUE, since),
                RecentLogs(logs, limit, None, None, TRUE, since), since)

get_errors(limit, since_minutes, now) ==
    /\ ret' = [op |-> "get_errors",
               args |-> [limit |-> limit, since_minutes |-> since_minutes,
                         since |-> now - since_minutes],
               value |-> Errors(limit, since_minutes, now)]
    /\ UNCHANGED <<storeVars, histVars>>

\* the dict TelemetryStore.get_stats returns
Stats(sp, lg, mt, sv) ==
    [total_spans |-> Len(sp), total_logs |-> Len(lg), total_metrics |-> Len(mt),
     services |-> sv,
     max_spans |-> MaxSpans, max_logs |-> MaxLogs, max_metrics |-> MaxMetrics]

\* TelemetryStore.get_stats
get_stats ==
    /\ ret' = [op |-> "get_stats", args |-> <<>>,
               value |-> Stats(spans, logs, metrics, services)]
    /\ UNCHANGED <<storeVars, histVars>>

\* sorted(self._services)
SortedNames(sv) ==
    CHOOSE q \in [1 .. Cardinality(sv) -> sv] :
        \A i, j \in DOMAIN q : i < j =>
            \/ (q[i] = "A" /\ q[j] # "A")
            \/ (q[i] = "B" /\ q[j] \notin {"A", "B"})

\* TelemetryStore.get_services
get_services ==
    /\ ret' = [op |-> "get_services", args |-> <<>>, value |-> SortedNames(services)]
    /\ UNCHANGED <<storeVars, histVars>>

\* round(x, 2) of x = e / a * 100, in hundredths of a percent; ties go to
\* the even neighbour
RoundedPercent(e, a) ==
    LET q == (10000 * e) \div a
        r == (10000 * e) % a
    IN IF 2 * r < a THEN q
       ELSE IF 2 * r > a THEN q + 1
       ELSE IF q % 2 = 0 THEN q ELSE q + 1

\* error_rate of analyze_incident: len(errors["error_spans"]) / len(all_spans)
\* * 100 if all_spans else 0, reported as round(error_rate, 2)
ErrorRate(n_error_spans, n_all_spans) ==
    IF n_all_spans # 0 THEN RoundedPercent(n_error_spans, n_all_spans) ELSE 0

\* call_tool "analyze_incident": the statistics of the report; `now` is the
\* clock reading of the handler, `now2` the later one inside get_errors
analyze_incident(since_minutes, now, now2) ==
    LET since == now - since_minutes
        errors == Errors(AnalyzeErrorLimit, since_minutes, now2)
        all_spans == RecentSpans(spans, AnalyzeSpanLimit, None, FALSE, since)
        all_logs == RecentLogs(logs, AnalyzeSpanLimit, None, None, FALSE, since)
    IN /\ ret' = [op |-> "analyze_incident",
                  args |-> [since_minutes |-> since_minutes, since |-> since],
                  value |-> [total_spans |-> Len(all_spans),
                             total_logs |-> Len(all_logs),
                             error_spans |-> Len(errors.error_spans),
                             error_logs |-> Len(errors.error_logs),
                             error_rate_percent |->
                                 ErrorRate(Len(errors.error_spans), Len(all_spans))]]
       /\ UNCHANGED <<storeVars, histVars>>

\* arguments.get("limit", 20) of the tool get_recent_traces
ToolTraceLimit == 20

\* call_tool "get_recent_traces": the arguments are read with their defaults
\* and handed to get_recent_spans; the result carries the count and the spans
RecentTraces(arguments) ==
    LET limit == IF arguments.hasLimit THEN arguments.limit ELSE ToolTraceLimit
        found == RecentSpans(spans, limit, arguments.service,
                             arguments.errors_only, NoTime)
    IN [count |-> Len(found), traces |-> found]

get_recent_traces(arguments) ==
    /\ ret' = [op |-> "get_recent_traces", args |-> arguments,
               value |-> RecentTraces(arguments)]
    /\ UNCHANGED <<storeVars, histVars>>

----------------------------------------------------------------------------
(* Spec: one caller drives the store; every call runs to completion *)

Init ==
    /\ StoreInit /\ ret = NoRet
    /\ ConcIdle /\ WatchIdle /\ DecIdle

\* the caller issues its next call once the previous one has returned
AddSpan ==
    \E s \in SpanInputs :
        /\ ret = NoRet /\ Adds < MaxAdds
        /\ add_span(s)
        /\ UNCHANGED <<ret, concVars, watchVars, decVars>>
AddLog ==
    \E l \in LogInputs :
        /\ ret = NoRet /\ Adds < MaxAdds
        /\ add_log(l)
        /\ UNCHANGED <<ret, concVars, watchVars, decVars>>
AddMetric ==
    \E m \in MetricInputs :
        /\ ret = NoRet /\ Adds < MaxAdds
        /\ add_metric(m)
        /\ UNCHANGED <<ret, concVars, watchVars, decVars>>
Clear ==
    /\ ret = NoRet
    /\ clear
    /\ UNCHANGED <<ret, concVars, watchVars, decVars>>
GetRecentSpans ==
    \E limit \in Limits, service \in ServiceArgs, errors_only \in BOOLEAN, since \in SinceArgs :
        /\ ret = NoRet
        /\ get_recent_spans(limit, service, errors_only, since)
        /\ UNCHANGED <<concVars, watchVars, decVars>>
GetRecentLogs ==
    \E limit \in Limits, service \in ServiceArgs, severity \in SeverityArgs,
       errors_only \in BOOLEAN, since \in SinceArgs :
        /\ ret = NoRet
        /\ get_recent_logs(limit, service, severity, errors_only, since)
        /\ UNCHANGED <<concVars, watchVars, decVars>>
GetRecentMetrics ==
    \E limit \in Limits, service \in ServiceArgs, metric_name \in NameArgs, since \in SinceArgs :
        /\ ret = NoRet
        /\ get_recent_metrics(limit, service, metric_name, since)
        /\ UNCHANGED <<concVars, watchVars, decVars>>
GetTrace ==
    \E trace_id \in TraceArgs :
        /\ ret = NoRet
        /\ get_trace(trace_id)
        /\ UNCHANGED <<concVars, watchVars, decVars>>
GetErrors ==
    \E limit \in Limits, since_minutes \in MinutesArgs, now \in Clock :
        /\ ret = NoRet
        /\ get_errors(limit, since_minutes, now)
        /\ UNCHANGED <<concVars, watchVars, decVars>>
GetStats ==
    /\ ret = NoRet
    /\ get_stats
    /\ UNCHANGED <<concVars, watchVars, decVars>>
GetServices ==
    /\ ret = NoRet
    /\ get_services
    /\ UNCHANGED <<concVars, watchVars, decVars>>
AnalyzeIncident ==
    \E since_minutes \in MinutesArgs, now \in Clock, now2 \in Clock :
        /\ ret = NoRet /\ now2 >= now
        /\ analyze_incident(since_minutes, now, now2)
        /\ UNCHANGED <<concVars, watchVars, decVars>>
GetRecentTraces ==
    \E arguments \in TraceArguments :
        /\ ret = NoRet
        /\ (~arguments.hasLimit => arguments.limit = 1)
        /\ get_recent_traces(arguments)
        /\ UNCHANGED <<concVars, watchVars, decVars>>
\* the caller takes the returned value
Return ==
    /\ ret # NoRet
    /\ ret' = NoRet
    /\ UNCHANGED <<storeVars, histVars, concVars, watchVars, decVars>>

Next ==
    \/ AddSpan \/ AddLog \/ AddMetric \/ Clear
    \/ GetRecentSpans \/ GetRecentLogs \/ GetRecentMetrics \/ GetTrace
    \/ GetErrors \/ GetStats \/ GetServices \/ AnalyzeIncident
    \/ GetRecentTraces
    \/ Return

Spec == Init /\ [][Next]_vars

----------------------------------------------------------------------------
(* Claims about the store under Spec *)

LastN(h, k) == SubSeq(h, Len(h) - k + 1, Len(h))
Count(x, seq) == Cardinality({i \in DOMAIN seq : seq[i] = x})

\* C1: each signal's sequence holds exactly the last min(n, N) entities
\* inserted since construction or the last clear(), in insertion order (so an
\* insert into a full sequence evicts the oldest entry and nothing else).
C1_BoundedFifo ==
    /\ spans   = LastN(hSpans,   Min(Len(hSpans),   MaxSpans))
    /\ logs    = LastN(hLogs,    Min(Len(hLogs),    MaxLogs))
    /\ metrics = LastN(hMetrics, Min(Len(hMetrics), MaxMetrics))

\* an insert into a full span sequence has evicted the oldest span
C1_Witness ==
    /\ Len(hSpans) > MaxSpans
    /\ Len(spans) = MaxSpans
    /\ hSpans[1] # hSpans[Len(hSpans)]

\* R is the entities of `retained` that satisfy P, by key descending, cut to
\* the first n (n >= 0); ties between equal keys may fall either way
IsRecentOf(R, retained, P(_), keyOf(_), n) ==
    LET F == SelectSeq(retained, P) IN
    /\ Len(R) = Min(n, Len(F))
    /\ \A i, j \in DOMAIN R : i < j => keyOf(R[i]) >= keyOf(R[j])
    /\ \A x \in Range(R) : Count(x, R) <= Count(x, F)
    /\ \A x \in Range(F) : Count(x, R) < Count(x, F) =>
            \A i \in DOMAIN R : keyOf(R[i]) >= keyOf(x)

ExampleSpans == << Span("T1", "A", 1, "OK"), Span("T1", "A", 2, "ERROR"),
                   Span("T2", "A", 3, "ERROR"), Span("T2", "B", 4, "OK") >>

\* C3: for a limit >= 0 the get_recent_* queries return exactly the retained
\* entities satisfying all supplied filters together, by event time
\* descending, cut to the first `limit`; on the spec's example errors_only
\* gives the 2 ERROR spans of A and service=B gives 1 span.
C3_RecentFiltered ==
    /\ (ret.op = "get_recent_spans" /\ ret.args.limit >= 0) =>
         IsRecentOf(ret.value, spans,
                    LAMBDA s : /\ (ret.args.service # None => s.service_name = ret.args.service)
                               /\ (ret.args.errors_only => s.status_code = "ERROR")
                               /\ (ret.args.since # NoTime => s.start_time >= ret.args.since),
                    LAMBDA s : s.start_time, ret.args.limit)
    /\ (ret.op = "get_recent_logs" /\ ret.args.limit >= 0) =>
         IsRecentOf(ret.value, logs,
                    LAMBDA l : /\ (ret.args.service # None => l.service_name = ret.args.service)
                               /\ (ret.args.severity # None => l.severity = ret.args.severity)
                               /\ (ret.args.errors_only => l.severity \in {"ERROR", "FATAL"})
                               /\ (ret.args.since # NoTime => l.timestamp >= ret.args.since),
                    LAMBDA l : l.timestamp, ret.args.limit)
    /\ (ret.op = "get_recent_metrics" /\ ret.args.limit >= 0) =>
         IsRecentOf(ret.value, metrics,
                    LAMBDA m : /\ (ret.args.service # None => m.service_name = ret.args.service)
                               /\ (ret.args.metric_name # None => m.name = ret.args.metric_name)
                               /\ (ret.args.since # NoTime => m.timestamp >= ret.args.since),
                    LAMBDA m : m.timestamp, ret.args.limit)
    /\ ret.op = "get_recent_spans" =>
         /\ RecentSpans(ExampleSpans, DefaultLimit, None, TRUE, NoTime)
              = << ExampleSpans[3], ExampleSpans[2] >>
         /\ RecentSpans(ExampleSpans, DefaultLimit, "B", FALSE, NoTime)
              = << ExampleSpans[4] >>

\* a query with a service filter, errors_only and a since bound dropped some
\* retained spans, and the limit cut the rest
C3_Witness ==
    /\ ret.op = "get_recent_spans"
    /\ ret.args.limit = 1 /\ ret.args.errors_only /\ ret.args.service = "A"
    /\ ret.args.since # NoTime
    /\ Len(ret.value) = 1
    /\ Len(spans) = 2 /\ spans[1] # ret.value[1]

\* C4: get_trace returns the retained spans of that trace_id and no others,
\* ascending by start time whatever the insertion order, and the empty list
\* for a trace_id no retained span carries.
C4_TraceAscending ==
    ret.op = "get_trace" =>
        /\ \A x \in Range(spans) \cup Range(ret.value) :
              Count(x, ret.value) = (IF x.trace_id = ret.args.trace_id THEN Count(x, spans) ELSE 0)
        /\ \A i, j \in DOMAIN ret.value :
              i < j => ret.value[i].start_time <= ret.value[j].start_time
        /\ ((\A i \in DOMAIN spans : spans[i].trace_id # ret.args.trace_id) => ret.value = <<>>)

\* two spans of one trace were inserted latest first and came back earliest first
C4_Witness ==
    /\ ret.op = "get_trace"
    /\ Len(spans) = 2 /\ spans[1].start_time > spans[2].start_time
    /\ ret.value = << spans[2], spans[1] >>

----------------------------------------------------------------------------
(* SpecConc: the file ingestor thread, the wire receiver thread and two    *)
(* callers share one store; one step per statement of add_*, clear and the *)
(* reads, inside or outside `with self._lock`                              *)

Producers == {"file", "wire"}
Callers   == {"caller1", "caller2"}
Threads   == Producers \cup Callers

ConcSpanInputs   == { Span("T1", "A", 2, "OK"), Span("T1", "B", 1, "ERROR") }
ConcLogInputs    == { LogRecord("A", "ERROR", 1) }
ConcMetricInputs == { MetricDataPoint("B", "cpu", 1) }

Mutators == {"add_span", "add_log", "add_metric", "clear"}
Readers  == {"get_recent_spans", "get_recent_logs", "get_recent_metrics", "get_trace"}
StatReaders == {"get_stats", "get_services"}

NoLoc == [op |-> "none", arg |-> None, snap |-> <<>>, at |-> <<>>]
StoreNow == [spans |-> spans, logs |-> logs, metrics |-> metrics, services |-> services]

\* a thread may enter `with self._lock` (threading.RLock) with the lock not taken
LockFree_always(t) == TRUE

\* a thread may enter `with self._lock` (threading.RLock): free, or already its own
LockFree(t) == lock = None \/ lock = t

InitConc ==
    /\ StoreInit /\ ret = NoRet
    /\ lock = None
    /\ pc = [t \in Threads |-> "idle"]
    /\ loc = [t \in Threads |-> NoLoc]
    /\ committed = [spans |-> <<>>, logs |-> <<>>, metrics |-> <<>>, services |-> {}]
    /\ calls = 0
    /\ WatchIdle /\ DecIdle

\* a producer calls add_span / add_log / add_metric
CallAdd(t) ==
    /\ t \in Producers /\ pc[t] = "idle" /\ calls < MaxCalls
    /\ \E c \in ({"add_span"} \X ConcSpanInputs) \cup ({"add_log"} \X ConcLogInputs)
                \cup ({"add_metric"} \X ConcMetricInputs) :
          loc' = [loc EXCEPT ![t] = [NoLoc EXCEPT !.op = c[1], !.arg = c[2]]]
    /\ pc' = [pc EXCEPT ![t] = "acquire"]
    /\ calls' = calls + 1
    /\ UNCHANGED <<storeVars, histVars, ret, lock, committed, watchVars, decVars>>

\* a caller calls clear() or one of the reads (default limit, no filter)
CallStore(t) ==
    /\ t \in Callers /\ pc[t] = "idle" /\ calls < MaxCalls
    /\ \E c \in ({"clear", "get_recent_spans", "get_recent_logs", "get_recent_metrics",
                  "get_stats", "get_services"} \X {None})
                \cup ({"get_trace"} \X {"T1"}) :
          loc' = [loc EXCEPT ![t] = [NoLoc EXCEPT !.op = c[1], !.arg = c[2]]]
    /\ pc' = [pc EXCEPT ![t] = "acquire"]
    /\ calls' = calls + 1
    /\ UNCHANGED <<storeVars, histVars, ret, lock, committed, watchVars, decVars>>

\* with self._lock:
Acquire(t) ==
    /\ pc[t] = "acquire" /\ LockFree(t)
    /\ lock' = t
    /\ pc' = [pc EXCEPT ![t] = IF loc[t].op = "clear" THEN "clear_spans"
                               ELSE IF loc[t].op \in Mutators THEN "append" ELSE "copy"]
    /\ UNCHANGED <<storeVars, histVars, ret, loc, committed, calls, watchVars, decVars>>

\* an append that waits for room in a full sequence
AppendStep_waitsForRoom(t) ==
    /\ pc[t] = "append"
    /\ \/ loc[t].op = "add_span" /\ Len(spans) < MaxSpans
          /\ spans' = DequeAppend(spans, loc[t].arg, MaxSpans)
          /\ hSpans' = Append(hSpans, loc[t].arg)
          /\ UNCHANGED <<logs, metrics, hLogs, hMetrics>>
       \/ loc[t].op = "add_log" /\ Len(logs) < MaxLogs
          /\ logs' = DequeAppend(logs, loc[t].arg, MaxLogs)
          /\ hLogs' = Append(hLogs, loc[t].arg)
          /\ UNCHANGED <<spans, metrics, hSpans, hMetrics>>
       \/ loc[t].op = "add_metric" /\ Len(metrics) < MaxMetrics
          /\ metrics' = DequeAppend(metrics, loc[t].arg, MaxMetrics)
          /\ hMetrics' = Append(hMetrics, loc[t].arg)
          /\ UNCHANGED <<spans, logs, hSpans, hLogs>>
    /\ pc' = [pc EXCEPT ![t] = "register"]
    /\ UNCHANGED <<services, ret, lock, loc, committed, calls, watchVars, decVars>>

\* self._spans.append(span) / self._logs.append(log) / self._metrics.append(metric)
AppendStep(t) ==
    /\ pc[t] = "append"
    /\ \/ loc[t].op = "add_span"
          /\ spans' = DequeAppend(spans, loc[t].arg, MaxSpans)
          /\ hSpans' = Append(hSpans, loc[t].arg)
          /\ UNCHANGED <<logs, metrics, hLogs, hMetrics>>
       \/ loc[t].op = "add_log"
          /\ logs' = DequeAppend(logs, loc[t].arg, MaxLogs)
          /\ hLogs' = Append(hLogs, loc[t].arg)
          /\ UNCHANGED <<spans, metrics, hSpans, hMetrics>>
       \/ loc[t].op = "add_metric"
          /\ metrics' = DequeAppend(metrics, loc[t].arg, MaxMetrics)
          /\ hMetrics' = Append(hMetrics, loc[t].arg)
          /\ UNCHANGED <<spans, logs, hSpans, hLogs>>
    /\ pc' = [pc EXCEPT ![t] = "register"]
    /\ UNCHANGED <<services, ret, lock, loc, committed, calls, watchVars, decVars>>

\* add_metric without its self._services.add
RegisterStep_notForMetrics(t) ==
    /\ pc[t] = "register"
    /\ services' = IF loc[t].op = "add_metric" THEN services
                   ELSE services \cup {loc[t].arg.service_name}
    /\ pc' = [pc EXCEPT ![t] = "release"]
    /\ UNCHANGED <<spans, logs, metrics, histVars, ret, lock, loc, committed, calls,
                   watchVars, decVars>>

\* self._services.add(entity.service_name)
RegisterStep(t) ==
    /\ pc[t] = "register"
    /\ services' = services \cup {loc[t].arg.service_name}
    /\ pc' = [pc EXCEPT ![t] = "release"]
    /\ UNCHANGED <<spans, logs, metrics, histVars, ret, lock, loc, committed, calls,
                   watchVars, decVars>>

\* the four statements of clear(), one at a time
ClearStep(t) ==
    /\ \/ pc[t] = "clear_spans" /\ spans' = <<>> /\ hSpans' = <<>>
          /\ pc' = [pc EXCEPT ![t] = "clear_logs"]
          /\ UNCHANGED <<logs, metrics, services, hLogs, hMetrics>>
       \/ pc[t] = "clear_logs" /\ logs' = <<>> /\ hLogs' = <<>>
          /\ pc' = [pc EXCEPT ![t] = "clear_metrics"]
          /\ UNCHANGED <<spans, metrics, services, hSpans, hMetrics>>
       \/ pc[t] = "clear_metrics" /\ metrics' = <<>> /\ hMetrics' = <<>>
          /\ pc' = [pc EXCEPT ![t] = "clear_services"]
          /\ UNCHANGED <<spans, logs, services, hSpans, hLogs>>
       \/ pc[t] = "clear_services" /\ services' = {}
          /\ pc' = [pc EXCEPT ![t] = "release"]
          /\ UNCHANGED <<spans, logs, metrics, histVars>>
    /\ UNCHANGED <<ret, lock, loc, committed, calls, watchVars, decVars>>

\* list(self._spans) / list(self._logs) / list(self._metrics), the
\* comprehension over self._spans of get_trace, the dict of get_stats and
\* sorted(self._services); `at` notes the same value as the last completed
\* mutation left it
CopyStep(t) ==
    /\ pc[t] = "copy"
    /\ loc' = [loc EXCEPT ![t] =
          IF loc[t].op = "get_recent_spans"
            THEN [@ EXCEPT !.snap = spans, !.at = committed.spans]
          ELSE IF loc[t].op = "get_recent_logs"
            THEN [@ EXCEPT !.snap = logs, !.at = committed.logs]
          ELSE IF loc[t].op = "get_recent_metrics"
            THEN [@ EXCEPT !.snap = metrics, !.at = committed.metrics]
          ELSE IF loc[t].op = "get_stats"
            THEN [@ EXCEPT !.snap = Stats(spans, logs, metrics, services),
                           !.at = Stats(committed.spans, committed.logs,
                                        committed.metrics, committed.services)]
          ELSE IF loc[t].op = "get_services"
            THEN [@ EXCEPT !.snap = SortedNames(services),
                           !.at = SortedNames(committed.services)]
          ELSE [@ EXCEPT !.snap = SelectSeq(spans, LAMBDA s : s.trace_id = loc[t].arg),
                         !.at = SelectSeq(committed.spans, LAMBDA s : s.trace_id = loc[t].arg)]]
    /\ pc' = [pc EXCEPT ![t] = "release"]
    /\ UNCHANGED <<storeVars, histVars, ret, lock, committed, calls, watchVars, decVars>>

\* leaving `with self._lock`; a mutation is complete here
Release(t) ==
    /\ pc[t] = "release"
    /\ lock' = None
    /\ committed' = IF loc[t].op \in Mutators THEN StoreNow ELSE committed
    /\ pc' = [pc EXCEPT ![t] = IF loc[t].op \in Mutators THEN "idle" ELSE "filter"]
    /\ loc' = [loc EXCEPT ![t] = IF loc[t].op \in Mutators THEN NoLoc ELSE @]
    /\ UNCHANGED <<storeVars, histVars, ret, calls, watchVars, decVars>>

\* the filters, the sort and the return of a read, on its copy, outside the
\* lock; get_stats and get_services return what they built under the lock
FilterStep(t) ==
    /\ pc[t] = "filter"
    /\ ret' = [op |-> loc[t].op,
               value |-> IF loc[t].op = "get_recent_spans"
                           THEN RecentSpans(loc[t].snap, DefaultLimit, None, FALSE, NoTime)
                         ELSE IF loc[t].op = "get_recent_logs"
                           THEN RecentLogs(loc[t].snap, DefaultLimit, None, None, FALSE, NoTime)
                         ELSE IF loc[t].op = "get_recent_metrics"
                           THEN RecentMetrics(loc[t].snap, DefaultLimit, None, None, NoTime)
                         ELSE IF loc[t].op \in StatReaders THEN loc[t].snap
                         ELSE StableSort(loc[t].snap,
                                         [i \in DOMAIN loc[t].snap |-> loc[t].snap[i].start_time],
                                         FALSE)]
    /\ pc' = [pc EXCEPT ![t] = "idle"]
    /\ loc' = [loc EXCEPT ![t] = NoLoc]
    /\ UNCHANGED <<storeVars, histVars, lock, committed, calls, watchVars, decVars>>

NextConc ==
    \E t \in Threads :
        \/ CallAdd(t) \/ CallStore(t) \/ Acquire(t)
        \/ AppendStep(t) \/ RegisterStep(t) \/ ClearStep(t)
        \/ CopyStep(t) \/ Release(t) \/ FilterStep(t)

SpecConc == InitConc /\ [][NextConc]_vars

\* a thread inside a store method runs on: a statement that stays ready to
\* run is eventually executed, and a thread waiting for the RLock takes it
\* once the lock stays free
ThreadRuns(t) ==
    \/ Acquire(t) \/ AppendStep(t) \/ RegisterStep(t) \/ ClearStep(t)
    \/ CopyStep(t) \/ Release(t) \/ FilterStep(t)
SpecConcFair ==
    /\ SpecConc
    /\ \A t \in Threads : WF_vars(ThreadRuns(t))

InLock == {"append", "register", "clear_spans", "clear_logs", "clear_metrics",
           "clear_services", "copy", "release"}

\* C2: add_*, clear() and the copy step of a read exclude one another under
\* the store's lock, and the copy a read takes is the sequence as the last
\* completed mutation left it, never a partly applied add or clear.
C2_SnapshotConsistent ==
    /\ \A t \in Threads : pc[t] \in InLock => lock = t
    /\ \A t, u \in Threads : (pc[t] \in InLock /\ pc[u] \in InLock) => t = u
    /\ \A t \in Threads : loc[t].op \in Readers => loc[t].snap = loc[t].at

\* a read holds a non-empty copy it took under the lock while another thread
\* is waiting for the lock to add or to clear
C2_Witness ==
    \E t \in Callers :
        /\ loc[t].op \in Readers /\ pc[t] = "release" /\ loc[t].snap # <<>>
        /\ \E u \in Threads \ {t} : pc[u] = "acquire" /\ loc[u].op \in Mutators

\* C14: clear() empties the three sequences and the registry atomically:
\* while a clear is between its four statements no other thread is inside
\* the lock, what get_stats, get_services or a get_recent_* copy took is the
\* store as the last completed add or clear left it, and when clear() leaves
\* the lock get_stats would report zero for every count and no services.
C14_ClearAtomic ==
    /\ \A t, u \in Threads :
          (pc[t] \in {"clear_spans", "clear_logs", "clear_metrics", "clear_services"}
             /\ u # t) => (lock = t /\ pc[u] \notin InLock)
    /\ \A t \in Threads :
          (loc[t].op \in StatReaders \cup Readers /\ pc[t] \in {"release", "filter"})
             => loc[t].snap = loc[t].at
    /\ \A t \in Threads :
          loc[t].op = "get_stats" /\ pc[t] \in {"release", "filter"} =>
             \/ loc[t].snap = Stats(<<>>, <<>>, <<>>, {})
             \/ loc[t].snap.total_spans + loc[t].snap.total_logs
                   + loc[t].snap.total_metrics > 0 /\ loc[t].snap.services # {}
    /\ \A t \in Threads :
          (loc[t].op = "clear" /\ pc[t] = "release") =>
             Stats(spans, logs, metrics, services) = Stats(<<>>, <<>>, <<>>, {})

\* get_stats holds the counts of a non-empty store, taken under the lock,
\* while a clear() is waiting for the lock
C14_Witness ==
    \E t, u \in Callers :
        /\ loc[t].op = "get_stats" /\ pc[t] = "release"
        /\ loc[t].snap.total_spans + loc[t].snap.total_logs + loc[t].snap.total_metrics > 0
        /\ loc[u].op = "clear" /\ pc[u] = "acquire"

\* the service names of the entities the store holds now
HeldNames ==
    { spans[i].service_name : i \in DOMAIN spans }
      \cup { logs[i].service_name : i \in DOMAIN logs }
      \cup { metrics[i].service_name : i \in DOMAIN metrics }

\* C30: whenever get_services() can read the registry (the lock is free, or
\* a reader holds it and is about to copy), every span, log record and
\* metric point the store holds names a service of the registry.
C30_RegistryCoversHeld ==
    (lock = None \/ \E t \in Threads : pc[t] = "copy") => HeldNames \subseteq services

\* two threads have added entities of two services and the lock is free
C30_Witness ==
    /\ lock = None
    /\ spans # <<>> /\ metrics # <<>>
    /\ Cardinality(HeldNames) = 2 /\ HeldNames \subseteq services

\* C16: a producer's add_* on a sequence at capacity is never refused: once
\* it has the lock each of its statements can run whatever the sequence
\* holds, it waits only while another thread holds the lock, and under fair
\* scheduling every add_* call of the file ingestor and of the wire receiver
\* returns.
C16_AddCompletes ==
    /\ [](\A t \in Producers :
            /\ pc[t] = "append" => ENABLED AppendStep(t)
            /\ pc[t] = "register" => ENABLED RegisterStep(t)
            /\ pc[t] = "release" => ENABLED Release(t)
            /\ (pc[t] = "acquire" /\ lock = None) => ENABLED Acquire(t))
    /\ \A t \in Producers : (pc[t] = "acquire") ~> (pc[t] = "idle")

\* an add_span on a full span sequence has evicted the oldest span and
\* every producer has returned
C16_Witness ==
    /\ Len(hSpans) > MaxSpans /\ Len(spans) = MaxSpans
    /\ spans = LastN(hSpans, MaxSpans)
    /\ \A t \in Producers : pc[t] = "idle"

----------------------------------------------------------------------------
(* SpecWatch: TelemetryWatcher and TelemetryFileHandler tailing one file   *)
(* that an exporter appends to                                              *)

(* The file is a sequence of bytes. The exporter writes document k as the  *)
(* two pieces H(k) T(k) followed by a newline; a flush may fall between any *)
(* two of them. H(k) T(k) is the JSON text of document k, split between two *)
(* JSON tokens, so neither piece is JSON by itself.                         *)
H(k) == [doc |-> k, part |-> "H"]
T(k) == [doc |-> k, part |-> "T"]
NL   == [doc |-> 0, part |-> "NL"]
WatchedPath == "traces.jsonl"
NoHandler == [exists |-> FALSE, positions |-> <<>>]

\* the decoded content of document k: the top-level key it carries and the
\* entities parse_*_from_otel builds from it
DocData(k) ==
    IF k = 2 THEN [key |-> "resourceLogs",  entities |-> << LogRecord("B", "ERROR", k) >>]
             ELSE [key |-> "resourceSpans", entities |-> << Span("T1", "A", k, "OK") >>]

\* str.strip(): leading and trailing whitespace removed
RECURSIVE LStrip(_)
LStrip(text) == IF text # <<>> /\ Head(text) = NL THEN LStrip(Tail(text)) ELSE text
RECURSIVE RStrip(_)
RStrip(text) ==
    IF text # <<>> /\ text[Len(text)] = NL THEN RStrip(SubSeq(text, 1, Len(text) - 1)) ELSE text
Strip(text) == RStrip(LStrip(text))

\* str.split('\n')
RECURSIVE SplitLines(_)
SplitLines(text) ==
    IF \A i \in DOMAIN text : text[i] # NL THEN << text >>
    ELSE LET i == CHOOSE j \in DOMAIN text :
                      text[j] = NL /\ \A h \in 1 .. (j - 1) : text[h] # NL
         IN << SubSeq(text, 1, i - 1) >> \o SplitLines(SubSeq(text, i + 1, Len(text)))

\* json.loads(text): the number of the document, 0 for JSONDecodeError;
\* whitespace around and between JSON tokens is ignored
JsonLoads(text) ==
    LET toks == SelectSeq(text, LAMBDA b : b # NL) IN
    IF Len(toks) = 2 /\ toks[1].part = "H" /\ toks[2].part = "T" /\ toks[1].doc = toks[2].doc
    THEN toks[1].doc ELSE 0

\* the line loop of _process_file: the documents handed to _parse_and_store, in order
RECURSIVE TailDocs(_, _)
TailDocs(lines, new_content) ==
    IF lines = <<>> THEN <<>>
    ELSE LET line == Head(lines) IN
         IF Strip(line) = <<>> THEN TailDocs(Tail(lines), new_content)
         ELSE IF JsonLoads(line) # 0
              THEN << JsonLoads(line) >> \o TailDocs(Tail(lines), new_content)
         ELSE IF JsonLoads(new_content) # 0
              THEN << JsonLoads(new_content) >>
         ELSE TailDocs(Tail(lines), new_content)

\* the line loop of _load_existing_files: a line that is not JSON is skipped
RECURSIVE LoadDocs(_)
LoadDocs(lines) ==
    IF lines = <<>> THEN <<>>
    ELSE LET line == Head(lines) IN
         IF Strip(line) = <<>> THEN LoadDocs(Tail(lines))
         ELSE IF JsonLoads(line) # 0 THEN << JsonLoads(line) >> \o LoadDocs(Tail(lines))
         ELSE LoadDocs(Tail(lines))

\* the store as a value, for handlers that add several entities in one step
StoreVal == [spans |-> spans, logs |-> logs, metrics |-> metrics, services |-> services,
             hSpans |-> hSpans, hLogs |-> hLogs, hMetrics |-> hMetrics]
SetStore(st) ==
    /\ spans' = st.spans /\ logs' = st.logs /\ metrics' = st.metrics
    /\ services' = st.services
    /\ hSpans' = st.hSpans /\ hLogs' = st.hLogs /\ hMetrics' = st.hMetrics

\* _parse_and_store(data, hint) for one decoded document
ParseAndStore(st, data) ==
    LET e == data.entities[1] IN
    IF data.key = "resourceSpans"
      THEN [st EXCEPT !.spans = DequeAppend(@, e, MaxSpans),
                      !.services = @ \cup {e.service_name}, !.hSpans = Append(@, e)]
    ELSE IF data.key = "resourceLogs"
      THEN [st EXCEPT !.logs = DequeAppend(@, e, MaxLogs),
                      !.services = @ \cup {e.service_name}, !.hLogs = Append(@, e)]
    ELSE [st EXCEPT !.metrics = DequeAppend(@, e, MaxMetrics),
                    !.services = @ \cup {e.service_name}, !.hMetrics = Append(@, e)]

RECURSIVE StoreDocs(_, _)
StoreDocs(st, docs) ==
    IF docs = <<>> THEN st
    ELSE StoreDocs(ParseAndStore(st, DocData(Head(docs))), Tail(docs))

\* dict.get(key, default)
DictGet(d, key, default) == IF key \in DOMAIN d THEN d[key] ELSE default
\* d[key] = value
DictSet(d, key, value) ==
    [x \in DOMAIN d \cup {key} |-> IF x = key THEN value ELSE d[x]]

\* f.tell() after f.seek(last_pos) and f.read(), left at the offset it had before
Tell_stale(last_pos, size) == last_pos

\* f.tell() after f.seek(last_pos) and f.read() on a file of `size` bytes
Tell(last_pos, size) == Max(last_pos, size)

\* entering `with self._lock` of the handler with the lock not taken
HLockFree_always == TRUE

\* entering `with self._lock` of the handler (threading.Lock)
HLockFree == hlock = None

Notifiers == {"n1", "n2"}
NoWLoc == [last_pos |-> 0, new_content |-> <<>>, noGrowth |-> FALSE, added |-> 0,
           ioError |-> FALSE, retry |-> FALSE]
Docs == 1 .. MaxDocs

InitWatch ==
    /\ StoreInit /\ ret = NoRet
    /\ file = <<>>
    /\ handler = NoHandler
    /\ observer = FALSE /\ running = FALSE
    /\ hlock = None
    /\ wpc = [t \in Notifiers \cup {"main"} |-> IF t = "main" THEN "new" ELSE "idle"]
    /\ wloc = [t \in Notifiers |-> NoWLoc]
    /\ wghost = [startLen |-> 0, liveFrom |-> 0, dirty |-> FALSE, prevRead |-> -1,
                 failPos |-> -1,
                 byLoad |-> [k \in Docs |-> 0], byTail |-> [k \in Docs |-> 0],
                 readBy |-> [i \in 1 .. (3 * MaxDocs) |-> 0]]
    /\ ConcIdle /\ DecIdle

\* the exporter appends the next piece of its output to the file
ExporterAppend ==
    /\ Len(file) < 3 * MaxDocs
    /\ LET k == (Len(file) \div 3) + 1
           piece == IF Len(file) % 3 = 0 THEN H(k) ELSE IF Len(file) % 3 = 1 THEN T(k) ELSE NL
       IN file' = Append(file, piece)
    /\ wghost' = [wghost EXCEPT !.dirty = @ \/ observer]
    /\ UNCHANGED <<storeVars, histVars, ret, handler, observer, running, hlock, wpc, wloc,
                   concVars, decVars>>

\* TelemetryWatcher.start up to and including _load_existing_files()
StartLoad ==
    /\ wpc["main"] = "new" /\ ~running
    /\ LET content == file
           docs == LoadDocs(SplitLines(Strip(content)))
       IN /\ SetStore(StoreDocs(StoreVal, docs))
          /\ handler' = IF handler.exists
                          THEN [handler EXCEPT !.positions = DictSet(@, WatchedPath, Len(content))]
                          ELSE handler
          /\ wghost' = [wghost EXCEPT
                          !.startLen = Len(content),
                          !.byLoad = [k \in Docs |->
                                        @[k] + Cardinality({i \in DOMAIN docs : docs[i] = k})]]
    /\ wpc' = [wpc EXCEPT !["main"] = "loaded"]
    /\ UNCHANGED <<ret, file, observer, running, hlock, wloc, concVars, decVars>>

\* TelemetryWatcher.start from `self._handler = TelemetryFileHandler(self.store)` on
StartObserve ==
    /\ wpc["main"] = "loaded"
    /\ handler' = [exists |-> TRUE, positions |-> <<>>]
    /\ hlock' = None
    /\ observer' = TRUE
    /\ running' = TRUE
    /\ wghost' = [wghost EXCEPT !.liveFrom = Len(file), !.prevRead = -1]
    /\ wpc' = [wpc EXCEPT !["main"] = "started"]
    /\ UNCHANGED <<storeVars, histVars, ret, file, wloc, concVars, decVars>>

\* on_created / on_modified for the watched file, up to `with self._lock`
Notify(t) ==
    /\ observer /\ wpc[t] = "idle"
    /\ wpc' = [wpc EXCEPT ![t] = "lock"]
    /\ wloc' = [wloc EXCEPT ![t] = NoWLoc]
    /\ UNCHANGED <<storeVars, histVars, ret, file, handler, observer, running, hlock, wghost,
                   concVars, decVars>>

\* with self._lock:
HAcquire(t) ==
    /\ wpc[t] = "lock" /\ HLockFree
    /\ hlock' = t
    /\ wpc' = [wpc EXCEPT ![t] = "getpos"]
    /\ UNCHANGED <<storeVars, histVars, ret, file, handler, observer, running, wloc, wghost,
                   concVars, decVars>>

\* last_pos = self._file_positions.get(file_path, 0)
GetPos(t) ==
    /\ wpc[t] = "getpos"
    /\ wloc' = [wloc EXCEPT ![t].last_pos = DictGet(handler.positions, WatchedPath, 0)]
    /\ wpc' = [wpc EXCEPT ![t] = "read"]
    /\ UNCHANGED <<storeVars, histVars, ret, file, handler, observer, running, hlock, wghost,
                   concVars, decVars>>

\* open, f.seek(last_pos), new_content = f.read(), self._file_positions[file_path] = f.tell()
ReadNew(t) ==
    /\ wpc[t] = "read"
    /\ LET last_pos == wloc[t].last_pos
           new_content == SubSeq(file, last_pos + 1, Len(file))
       IN /\ wloc' = [wloc EXCEPT ![t].new_content = new_content,
                                  ![t].noGrowth = (wghost.prevRead = Len(file)),
                                  ![t].retry = (wghost.failPos = last_pos)]
          /\ handler' = [handler EXCEPT
                           !.positions = DictSet(@, WatchedPath, Tell(last_pos, Len(file)))]
          /\ wghost' = [wghost EXCEPT
                          !.dirty = FALSE,
                          !.prevRead = Len(file),
                          !.failPos = -1,
                          !.readBy = [i \in DOMAIN @ |->
                                        IF i > last_pos /\ i <= Len(file) THEN @[i] + 1 ELSE @[i]]]
    /\ wpc' = [wpc EXCEPT ![t] = "decode"]
    /\ UNCHANGED <<storeVars, histVars, ret, file, observer, running, hlock, concVars, decVars>>

\* an I/O error with the offset moved to the end of the file all the same
ReadFail_advances(t) ==
    /\ wpc[t] = "read"
    /\ wloc' = [wloc EXCEPT ![t].ioError = TRUE]
    /\ handler' = [handler EXCEPT !.positions = DictSet(@, WatchedPath, Len(file))]
    /\ wghost' = [wghost EXCEPT !.failPos = wloc[t].last_pos]
    /\ wpc' = [wpc EXCEPT ![t] = "unlock"]
    /\ UNCHANGED <<storeVars, histVars, ret, file, observer, running, hlock,
                   concVars, decVars>>

\* open(), f.seek() or f.read() raises: the statements up to and including
\* `self._file_positions[file_path] = f.tell()` after the failing one do not
\* run, the exception leaves `with self._lock` and is caught and printed by
\* `except Exception`
ReadFail(t) ==
    /\ wpc[t] = "read"
    /\ wloc' = [wloc EXCEPT ![t].ioError = TRUE]
    /\ wghost' = [wghost EXCEPT !.failPos = wloc[t].last_pos]
    /\ wpc' = [wpc EXCEPT ![t] = "unlock"]
    /\ UNCHANGED <<storeVars, histVars, ret, file, handler, observer, running, hlock,
                   concVars, decVars>>

\* from `if not new_content.strip(): return` to the end of the line loop
DecodeNew(t) ==
    /\ wpc[t] = "decode"
    /\ LET new_content == wloc[t].new_content
           docs == IF Strip(new_content) = <<>> THEN <<>>
                   ELSE TailDocs(SplitLines(Strip(new_content)), new_content)
       IN /\ SetStore(StoreDocs(StoreVal, docs))
          /\ wloc' = [wloc EXCEPT ![t].added = Len(docs)]
          /\ wghost' = [wghost EXCEPT
                          !.byTail = [k \in Docs |->
                                        @[k] + Cardinality({i \in DOMAIN docs : docs[i] = k})]]
    /\ wpc' = [wpc EXCEPT ![t] = "unlock"]
    /\ UNCHANGED <<ret, file, handler, observer, running, hlock, concVars, decVars>>

\* leaving `with self._lock`; _process_file returns
HRelease(t) ==
    /\ wpc[t] = "unlock"
    /\ hlock' = None
    /\ wpc' = [wpc EXCEPT ![t] = "idle"]
    /\ wloc' = [wloc EXCEPT ![t] = NoWLoc]
    /\ UNCHANGED <<storeVars, histVars, ret, file, handler, observer, running, wghost,
                   concVars, decVars>>

\* TelemetryWatcher.stop() on a watcher that was never started: there is no
\* observer, only `self._running = False` runs
StopIdle ==
    /\ wpc["main"] = "new"
    /\ running' = FALSE
    /\ wpc' = [wpc EXCEPT !["main"] = "stopped"]
    /\ UNCHANGED <<storeVars, histVars, ret, file, handler, observer, hlock, wloc, wghost,
                   concVars, decVars>>

\* TelemetryWatcher.stop(): self._observer.stop(); no event is dispatched
\* from here on
StopObserver ==
    /\ wpc["main"] = "started"
    /\ observer' = FALSE
    /\ wpc' = [wpc EXCEPT !["main"] = "joining"]
    /\ UNCHANGED <<storeVars, histVars, ret, file, handler, running, hlock, wloc, wghost,
                   concVars, decVars>>

\* self._observer.join() returns when the handlers in flight have returned
JoinReturns == \A t \in Notifiers : wpc[t] = "idle"

\* TelemetryWatcher.stop() from the return of join(): self._observer = None,
\* self._running = False
StopJoin ==
    /\ wpc["main"] = "joining" /\ JoinReturns
    /\ running' = FALSE
    /\ wpc' = [wpc EXCEPT !["main"] = "stopped"]
    /\ UNCHANGED <<storeVars, histVars, ret, file, handler, observer, hlock, wloc, wghost,
                   concVars, decVars>>

NextWatch ==
    \/ ExporterAppend \/ StartLoad \/ StartObserve
    \/ StopIdle \/ StopObserver \/ StopJoin
    \/ \E t \in Notifiers :
          \/ Notify(t) \/ HAcquire(t) \/ GetPos(t) \/ ReadNew(t) \/ ReadFail(t)
          \/ DecodeNew(t) \/ HRelease(t)

SpecWatch == InitWatch /\ [][NextWatch]_vars

StoredOffset == DictGet(handler.positions, WatchedPath, 0)
RECURSIVE SumTo(_, _)
SumTo(f, n) == IF n = 0 THEN 0 ELSE f[n] + SumTo(f, n - 1)
TailStored == SumTo(wghost.byTail, MaxDocs)

\* C5: once start() has run, the offset stored for a file that was there at
\* startup is its length at startup (until a notification moves it), and no
\* document the backfill stored is stored again by a notification.
C5_OffsetAtStartup ==
    running =>
        /\ (wghost.prevRead = -1 => StoredOffset = wghost.startLen)
        /\ \A k \in Docs : wghost.byLoad[k] > 0 => wghost.byTail[k] = 0

\* C6: a run of _process_file that finds the file as long as the previous
\* run found it adds no entity to the store.
C6_TailIdempotent ==
    \A t \in Notifiers :
        (wpc[t] = "unlock" /\ wloc[t].noGrowth) => wloc[t].added = 0

\* a run has ended without adding anything, on a file an earlier run had
\* stored documents from and that had not grown since
C6_Witness ==
    \E t \in Notifiers :
        /\ wpc[t] = "unlock" /\ wloc[t].noGrowth /\ wloc[t].added = 0
        /\ TailStored > 0 /\ StoredOffset = Len(file)

\* C7: no byte of the file is read by two notifications, a notification
\* reads and decodes only while it holds the handler's lock, and when it is
\* done the stored offset is the end of the bytes it read.
C7_SerializedReads ==
    /\ \A i \in DOMAIN wghost.readBy : wghost.readBy[i] <= 1
    /\ \A t \in Notifiers :
          wpc[t] \in {"getpos", "read", "decode", "unlock"} => hlock = t
    /\ \A t \in Notifiers :
          wpc[t] \in {"decode", "unlock"} =>
              StoredOffset = wloc[t].last_pos + Len(wloc[t].new_content)

\* a notification has read bytes past those an earlier one read, while the
\* other notification waits for the lock
C7_Witness ==
    \E t, u \in Notifiers :
        /\ t # u /\ wpc[u] = "lock"
        /\ wpc[t] = "unlock" /\ wloc[t].last_pos > 0 /\ wloc[t].new_content # <<>>

\* C8: with the watcher running and every notification handled, each line
\* that was appended whole while it was running has been stored exactly once.
C8_AppendedOnce ==
    (running /\ ~wghost.dirty /\ \A t \in Notifiers : wpc[t] = "idle") =>
        \A k \in Docs :
            (3 * (k - 1) >= wghost.liveFrom /\ Len(file) >= 3 * k) =>
                wghost.byLoad[k] + wghost.byTail[k] = 1

\* C20: an I/O error while a notification is handled is caught and leaves
\* the watch loop, the store and the stored offset as they were, and the
\* stored offset never passes a byte that no notification has read, so the
\* bytes a failed notification did not read are read by a later one.
C20_IoErrorRetried ==
    /\ [][\A t \in Notifiers :
            (wpc[t] = "read" /\ wpc'[t] = "unlock" /\ wloc'[t].ioError) =>
                /\ UNCHANGED <<observer, running, handler, storeVars>>
                /\ hlock = t]_vars
    /\ [](\A t \in Notifiers :
            (wpc[t] = "unlock" /\ wloc[t].ioError) =>
                (StoredOffset = wloc[t].last_pos /\ wloc[t].added = 0))
    /\ [](\A i \in DOMAIN wghost.readBy : i <= StoredOffset => wghost.readBy[i] >= 1)
    /\ [](\A t \in Notifiers : wpc[t] = "unlock" => ENABLED HRelease(t))

\* a notification has read from the offset at which the notification before
\* it failed with an I/O error, and has stored what it read
C20_Witness ==
    \E t \in Notifiers :
        /\ wpc[t] = "unlock" /\ ~wloc[t].ioError
        /\ wloc[t].retry /\ wloc[t].added > 0

----------------------------------------------------------------------------
(* SpecDecode: one record at a time is decoded by the file path            *)
(* (parse_*_from_otel, called by _parse_and_store) or by the wire path     *)
(* (parse_*_from_proto, called by Export) and added to the store           *)

\* severity_map of parse_log_from_otel with the ERROR bucket starting one ordinal late
severity_map_late == << "TRACE", "TRACE", "TRACE", "TRACE", "DEBUG", "DEBUG", "DEBUG", "DEBUG",
                        "INFO", "INFO", "INFO", "INFO", "WARN", "WARN", "WARN", "WARN",
                        "WARN", "ERROR", "ERROR", "ERROR", "FATAL", "FATAL", "FATAL", "FATAL" >>

\* severity_map of parse_log_from_otel (keys 1..24)
severity_map == << "TRACE", "TRACE", "TRACE", "TRACE", "DEBUG", "DEBUG", "DEBUG", "DEBUG",
                   "INFO", "INFO", "INFO", "INFO", "WARN", "WARN", "WARN", "WARN",
                   "ERROR", "ERROR", "ERROR", "ERROR", "FATAL", "FATAL", "FATAL", "FATAL" >>

\* severity_map of parse_log_from_proto (keys SEVERITY_NUMBER_TRACE .. SEVERITY_NUMBER_FATAL4)
severity_map_proto ==
                << "TRACE", "TRACE", "TRACE", "TRACE", "DEBUG", "DEBUG", "DEBUG", "DEBUG",
                   "INFO", "INFO", "INFO", "INFO", "WARN", "WARN", "WARN", "WARN",
                   "ERROR", "ERROR", "ERROR", "ERROR", "FATAL", "FATAL", "FATAL", "FATAL" >>

\* the severity parse_log_from_otel gives a JSON log record
\*   severity_num = log_data.get("severityNumber", 9)
\*   severity = log_data.get("severityText", severity_map.get(severity_num, "INFO"))
SeverityFromOtel(log_data) ==
    LET severity_num == IF log_data.hasNumber THEN log_data.severityNumber ELSE 9
    IN IF log_data.hasText THEN log_data.severityText
       ELSE DictGet(severity_map, severity_num, "INFO")

\* the severity parse_log_from_proto gives a protobuf log record
SeverityFromProto(log_pb) ==
    IF log_pb.severity_text # "" THEN log_pb.severity_text
    ELSE DictGet(severity_map_proto, log_pb.severity_number, "INFO")

\* ["UNSET", "OK", "ERROR"][i] of a Python list: [ok, value], not ok for IndexError
StatusNames == << "UNSET", "OK", "ERROR" >>
PyIndex(list, i) ==
    IF i >= 0 /\ i < Len(list) THEN [ok |-> TRUE, value |-> list[i + 1]]
    ELSE IF i < 0 /\ i >= -Len(list) THEN [ok |-> TRUE, value |-> list[Len(list) + i + 1]]
    ELSE [ok |-> FALSE, value |-> None]

\* the status parse_span_from_otel gives a JSON span: [ok, value], not ok when
\* the lookup raises and the function returns None
\*   status_code = status.get("code", "UNSET")
\*   if isinstance(status_code, int): status_code = [...][min(status_code, 2)]
StatusFromOtel(status) ==
    IF status.type = "absent" THEN [ok |-> TRUE, value |-> "UNSET"]
    ELSE IF status.type = "int" THEN PyIndex(StatusNames, Min(status.int, 2))
    ELSE [ok |-> TRUE, value |-> status.str]

\* the status parse_span_from_proto gives a protobuf span
StatusFromProto(code) ==
    IF code = 1 THEN "OK" ELSE IF code = 2 THEN "ERROR" ELSE "UNSET"

\* MetricDataPoint with the value a decoder computed
MetricDataPointV(svc, nm, t, v) ==
    [service_name |-> svc, name |-> nm, timestamp |-> t, value |-> v]

\* parse_metric_from_otel: value = dp.get("asDouble", dp.get("asInt", 0)),
\* for every data_type of ["gauge", "sum", "histogram"]
MetricValueFromOtel(data_type, dp) ==
    IF dp.num = "asDouble" THEN dp.v
    ELSE IF dp.num = "asInt" THEN dp.v
    ELSE 0

\* parse_metric_from_proto: gauge and sum take as_double, else as_int, else
\* 0; histogram takes dp.count
MetricValueFromProto(data_type, dp) ==
    IF data_type = "histogram" THEN dp.count
    ELSE IF dp.num = "asDouble" THEN dp.v
    ELSE IF dp.num = "asInt" THEN dp.v
    ELSE 0

\* the points one metric decodes to, one per data point, in order
MetricsFromOtel(metric_data) ==
    [i \in DOMAIN metric_data.dataPoints |->
        MetricDataPointV("A", metric_data.name, 1,
                         MetricValueFromOtel(metric_data.type, metric_data.dataPoints[i]))]
MetricsFromProto(metric_pb) ==
    [i \in DOMAIN metric_pb.dataPoints |->
        MetricDataPointV("A", metric_pb.name, 1,
                         MetricValueFromProto(metric_pb.type, metric_pb.dataPoints[i]))]

\* self.store.add_metric(metric) for every metric of the list, in order
RECURSIVE AddAll(_, _, _)
AddAll(dq, xs, cap) ==
    IF xs = <<>> THEN dq ELSE AddAll(DequeAppend(dq, Head(xs), cap), Tail(xs), cap)

(* Inputs *)
SeverityNumbers == 0 .. 25
SeverityTexts == {"", "WARN", "ERROR", "Critical"}
JsonLogInputs ==
    { [hasNumber |-> TRUE, severityNumber |-> n, hasText |-> FALSE, severityText |-> ""]
        : n \in SeverityNumbers }
    \cup { [hasNumber |-> TRUE, severityNumber |-> n, hasText |-> TRUE, severityText |-> x]
             : n \in {0, 4, 17, 24}, x \in SeverityTexts }
    \cup { [hasNumber |-> FALSE, severityNumber |-> 0, hasText |-> b, severityText |-> ""]
             : b \in BOOLEAN }
ProtoLogInputs ==
    { [severity_number |-> n, severity_text |-> ""] : n \in SeverityNumbers }
    \cup { [severity_number |-> n, severity_text |-> x]
             : n \in {0, 4, 17, 24}, x \in SeverityTexts \ {""} }
JsonStatusInputs ==
    { [type |-> "absent", int |-> 0, str |-> ""] }
    \cup { [type |-> "int", int |-> i, str |-> ""] : i \in -4 .. 3 }
    \cup { [type |-> "str", int |-> 0, str |-> x] : x \in {"ERROR", "STATUS_CODE_ERROR"} }
ProtoStatusInputs == 0 .. 3
NumberSamples ==
    { [num |-> "asDouble", v |-> 2, count |-> 0],
      [num |-> "asInt", v |-> 5, count |-> 0],
      [num |-> "none", v |-> 0, count |-> 0] }
HistogramSamples ==
    { [num |-> "none", v |-> 0, count |-> 3], [num |-> "none", v |-> 0, count |-> 1] }
SamplesOf(S) == { <<a>> : a \in S } \cup { <<a, b>> : a \in S, b \in S }
MetricDecodeInputs ==
    { [name |-> "m", type |-> ty, dataPoints |-> dps]
        : ty \in {"gauge", "sum"}, dps \in SamplesOf(NumberSamples) }
    \cup { [name |-> "m", type |-> "histogram", dataPoints |-> dps]
             : dps \in SamplesOf(HistogramSamples) }

InitDecode ==
    /\ StoreInit /\ ret = NoRet
    /\ DecIdle
    /\ ConcIdle /\ WatchIdle

\* _parse_and_store on a resourceLogs document holding one log record
FileLog ==
    \E log_data \in JsonLogInputs :
        /\ Adds < MaxDecodes
        /\ LET log == LogRecord("A", SeverityFromOtel(log_data), 1) IN
              /\ add_log(log)
              /\ din' = [kind |-> "log", path |-> "file", data |-> log_data]
              /\ dout' = [ok |-> TRUE, entity |-> log]
        /\ UNCHANGED <<ret, concVars, watchVars, receiver, rpc>>

\* LogsServiceServicer.Export on a request holding one log record
WireLog ==
    \E log_pb \in ProtoLogInputs :
        /\ Adds < MaxDecodes
        /\ LET log == LogRecord("A", SeverityFromProto(log_pb), 1) IN
              /\ add_log(log)
              /\ din' = [kind |-> "log", path |-> "wire", data |-> log_pb]
              /\ dout' = [ok |-> TRUE, entity |-> log]
        /\ UNCHANGED <<ret, concVars, watchVars, receiver, rpc>>

\* _parse_and_store on a resourceSpans document holding one span
FileSpan ==
    \E status \in JsonStatusInputs :
        /\ Adds < MaxDecodes
        /\ LET st == StatusFromOtel(status) IN
              /\ din' = [kind |-> "span", path |-> "file", data |-> status]
              /\ IF st.ok
                   THEN /\ add_span(Span("T1", "A", 1, st.value))
                        /\ dout' = [ok |-> TRUE, entity |-> Span("T1", "A", 1, st.value)]
                   ELSE /\ dout' = [ok |-> FALSE, entity |-> None]
                        /\ UNCHANGED <<storeVars, histVars>>
        /\ UNCHANGED <<ret, concVars, watchVars, receiver, rpc>>

\* TraceServiceServicer.Export on a request holding one span
WireSpan ==
    \E code \in ProtoStatusInputs :
        /\ Adds < MaxDecodes
        /\ LET span == Span("T1", "A", 1, StatusFromProto(code)) IN
              /\ add_span(span)
              /\ din' = [kind |-> "span", path |-> "wire", data |-> code]
              /\ dout' = [ok |-> TRUE, entity |-> span]
        /\ UNCHANGED <<ret, concVars, watchVars, receiver, rpc>>

\* the store after the decoded metrics were added one by one
AddMetrics(ms) ==
    /\ metrics' = AddAll(metrics, ms, MaxMetrics)
    /\ services' = services \cup { ms[i].service_name : i \in DOMAIN ms }
    /\ hMetrics' = hMetrics \o ms
    /\ UNCHANGED <<spans, logs, hSpans, hLogs>>

\* _parse_and_store on a resourceMetrics document holding one metric
FileMetric ==
    \E metric_data \in MetricDecodeInputs :
        /\ Adds < MaxDecodes
        /\ AddMetrics(MetricsFromOtel(metric_data))
        /\ din' = [kind |-> "metric", path |-> "file", data |-> metric_data]
        /\ dout' = [ok |-> TRUE, entity |-> MetricsFromOtel(metric_data)]
        /\ UNCHANGED <<ret, concVars, watchVars, receiver, rpc>>

\* MetricsServiceServicer.Export on a request holding one metric
WireMetric ==
    \E metric_pb \in MetricDecodeInputs :
        /\ Adds < MaxDecodes
        /\ AddMetrics(MetricsFromProto(metric_pb))
        /\ din' = [kind |-> "metric", path |-> "wire", data |-> metric_pb]
        /\ dout' = [ok |-> TRUE, entity |-> MetricsFromProto(metric_pb)]
        /\ UNCHANGED <<ret, concVars, watchVars, receiver, rpc>>

NextDecode == FileLog \/ WireLog \/ FileSpan \/ WireSpan \/ FileMetric \/ WireMetric

SpecDecode == InitDecode /\ [][NextDecode]_vars

SeverityNames == << "TRACE", "DEBUG", "INFO", "WARN", "ERROR", "FATAL" >>
Bucket(n) == SeverityNames[((n - 1) \div 4) + 1]

\* C9: on both paths a log record that carries a severity text is stored
\* with that text, and one that carries none and has ordinal 1-24 is stored
\* with the bucket of its ordinal: 1-4 TRACE, 5-8 DEBUG, 9-12 INFO, 13-16
\* WARN, 17-20 ERROR, 21-24 FATAL.
C9_SeverityMapping ==
    din.kind = "log" =>
        LET d == din.data
            carried == IF din.path = "file" THEN d.hasText ELSE d.severity_text # ""
            text == IF din.path = "file" THEN d.severityText ELSE d.severity_text
            hasOrd == IF din.path = "file" THEN d.hasNumber ELSE TRUE
            ord == IF din.path = "file" THEN d.severityNumber ELSE d.severity_number
        IN /\ dout.ok /\ logs # <<>> /\ logs[Len(logs)] = dout.entity
           /\ carried => dout.entity.severity = text
           /\ (~carried /\ hasOrd /\ ord \in 1 .. 24) => dout.entity.severity = Bucket(ord)

\* a wire record with ordinal 17 and the text WARN was stored as WARN, after
\* a file record with ordinal 17 and no text was stored as ERROR
C9_Witness ==
    /\ din.kind = "log" /\ din.path = "wire"
    /\ din.data.severity_number = 17 /\ din.data.severity_text = "WARN"
    /\ Len(logs) = 2 /\ logs[1].severity = "ERROR" /\ logs[2].severity = "WARN"

\* C38 as stated: a log record decoded from an ordinal in 17-24 is an error
\* and one decoded from an ordinal in 1-16 is not, whatever text it carries.
C38_ErrorByOrdinal ==
    din.kind = "log" =>
        LET d == din.data
            hasOrd == IF din.path = "file" THEN d.hasNumber ELSE TRUE
            ord == IF din.path = "file" THEN d.severityNumber ELSE d.severity_number
        IN /\ (hasOrd /\ ord \in 17 .. 24) => LogIsError(dout.entity)
           /\ (hasOrd /\ ord \in 1 .. 16) => ~LogIsError(dout.entity)

\* C38: a log record that carries no severity text is an error when its
\* ordinal is in 17-24 and is not when its ordinal is in 1-16; a record that
\* carries a severity text is an error exactly when the text is ERROR or
\* FATAL, whatever its ordinal; and a query with errors_only returns the
\* record just stored exactly when it is an error.
C38_ErrorByStoredSeverity ==
    din.kind = "log" =>
        LET d == din.data
            carried == IF din.path = "file" THEN d.hasText ELSE d.severity_text # ""
            text == IF din.path = "file" THEN d.severityText ELSE d.severity_text
            hasOrd == IF din.path = "file" THEN d.hasNumber ELSE TRUE
            ord == IF din.path = "file" THEN d.severityNumber ELSE d.severity_number
            found == RecentLogs(logs, DefaultLimit, None, None, TRUE, NoTime)
        IN /\ (~carried /\ hasOrd /\ ord \in 17 .. 24) => LogIsError(dout.entity)
           /\ (~carried /\ hasOrd /\ ord \in 1 .. 16) => ~LogIsError(dout.entity)
           /\ carried => (LogIsError(dout.entity) <=> text \in {"ERROR", "FATAL"})
           /\ LogIsError(dout.entity) <=> (\E i \in DOMAIN found : found[i] = dout.entity)

\* a file record with ordinal 4 and the text ERROR was stored as an error
C38_Witness ==
    /\ din.kind = "log" /\ din.path = "file"
    /\ din.data.hasText /\ din.data.severityText = "ERROR" /\ din.data.severityNumber = 4
    /\ LogIsError(dout.entity) /\ logs[Len(logs)] = dout.entity

\* C10: every retained span has a status in {UNSET, OK, ERROR}, and the
\* ordinals 0, 1, 2 decode to UNSET, OK, ERROR on both paths.
C10_StatusInSet ==
    /\ \A i \in DOMAIN spans : spans[i].status_code \in {"UNSET", "OK", "ERROR"}
    /\ (din.kind = "span" /\ din.path = "wire" /\ din.data \in 0 .. 2) =>
          dout.entity.status_code = StatusNames[din.data + 1]
    /\ (din.kind = "span" /\ din.path = "file" /\ din.data.type = "int" /\ din.data.int \in 0 .. 2) =>
          (dout.ok /\ dout.entity.status_code = StatusNames[din.data.int + 1])

\* C11: on both paths a gauge or sum metric yields one point per sample
\* carrying the sample's numeric value, and a histogram metric yields one
\* point per sample whose value is the sample's count; the points are
\* the newest entries of the metric sequence.
C11_MetricValues ==
    din.kind = "metric" =>
        LET m == din.data
            n == Len(m.dataPoints)
        IN /\ dout.ok /\ Len(dout.entity) = n
           /\ LastN(hMetrics, n) = dout.entity
           /\ \A i \in 1 .. n :
                 /\ (m.type \in {"gauge", "sum"} /\ m.dataPoints[i].num # "none")
                       => dout.entity[i].value = m.dataPoints[i].v
                 /\ m.type = "histogram" => dout.entity[i].value = m.dataPoints[i].count

----------------------------------------------------------------------------
(* Claims about the aggregates under Spec *)

\* the retained spans that started inside the window
InWindow(since) == SelectSeq(spans, LAMBDA x : x.start_time >= since)

QueryOps == {"get_recent_spans", "get_recent_logs", "get_recent_metrics",
             "get_trace", "get_errors", "get_stats", "get_services"}

\* C23: a step in which get_recent_spans/logs/metrics, get_trace, get_errors,
\* get_stats or get_services returns leaves the three retained sequences and
\* the service registry as they were, whatever arguments were passed.
C23_QueriesReadOnly ==
    [][(ret = NoRet /\ ret'.op \in QueryOps) => UNCHANGED storeVars]_vars

\* get_trace returned two spans in an order other than the store's, and the
\* store still holds them in insertion order
C23_Witness ==
    /\ ret.op = "get_trace" /\ Len(ret.value) = 2
    /\ Len(spans) = 2 /\ ret.value[1] = spans[2] /\ ret.value[1] # spans[1]
    /\ spans = hSpans

\* the arguments with every bad value replaced by the missing-argument case
WithDefaults(arguments) ==
    [arguments EXCEPT !.hasLimit = arguments.hasLimit /\ arguments.limit >= 0,
                      !.service = IF arguments.service = "" THEN None
                                  ELSE arguments.service]

\* C21: the tool get_recent_traces given a negative limit or an empty-string
\* service returns what it returns when that argument is left out (limit 20,
\* no service filter).
C21_BadFilterDefault ==
    ret.op = "get_recent_traces" =>
        ret.value = RecentTraces(WithDefaults(ret.args))

\* C12: analyze_incident reports error_rate_percent = (error spans in the
\* trailing window) / (all spans in the trailing window) x 100 for any number
\* of retained spans, 0 when the window holds no span, and 20.0 for 10 spans
\* of which 2 are errors.
C12_ErrorRate ==
    /\ ret.op = "analyze_incident" =>
         LET all == InWindow(ret.args.since)
             err == SelectSeq(all, SpanIsError)
         IN ret.value.error_rate_percent =
               IF Len(all) = 0 THEN 0 ELSE RoundedPercent(Len(err), Len(all))
    /\ ErrorRate(2, 10) = 2000
    /\ ErrorRate(0, 0) = 0

\* C13: get_errors returns the error-only spans and the ERROR/FATAL-only
\* logs inside the trailing window (the newest `limit` of each, limit >= 0),
\* with a summary whose two totals are the lengths of those lists and whose
\* affected_services is exactly the set of their service names; on a store
\* without spans and logs the totals are 0 and affected_services is empty.
C13_GetErrors ==
    ret.op = "get_errors" =>
        LET v == ret.value IN
        /\ ret.args.limit >= 0 =>
             /\ IsRecentOf(v.error_spans, spans,
                           LAMBDA x : x.status_code = "ERROR" /\ x.start_time >= ret.args.since,
                           LAMBDA x : x.start_time, ret.args.limit)
             /\ IsRecentOf(v.error_logs, logs,
                           LAMBDA l : l.severity \in {"ERROR", "FATAL"}
                                      /\ l.timestamp >= ret.args.since,
                           LAMBDA l : l.timestamp, ret.args.limit)
        /\ \A x \in Range(v.error_spans) :
              x \in Range(spans) /\ SpanIsError(x) /\ x.start_time >= ret.args.since
        /\ \A l \in Range(v.error_logs) :
              l \in Range(logs) /\ LogIsError(l) /\ l.timestamp >= ret.args.since
        /\ v.summary.total_error_spans = Len(v.error_spans)
        /\ v.summary.total_error_logs = Len(v.error_logs)
        /\ v.summary.affected_services =
              { x.service_name : x \in Range(v.error_spans) \cup Range(v.error_logs) }
        /\ (spans = <<>> /\ logs = <<>>) =>
              /\ v.summary.total_error_spans = 0 /\ v.summary.total_error_logs = 0
              /\ v.summary.affected_services = {}

\* get_errors returned an error span of A and a fatal log of B while the
\* window left out a retained error span
C13_Witness ==
    /\ ret.op = "get_errors" /\ ret.args.limit = 2
    /\ Len(ret.value.error_spans) = 1 /\ Len(ret.value.error_logs) = 1
    /\ ret.value.summary.affected_services = {"A", "B"}
    /\ \E i \in DOMAIN spans : SpanIsError(spans[i]) /\ spans[i].start_time < ret.args.since

\* the service names of every entity inserted since the last clear()
NamesSinceClear ==
    { x.service_name : x \in Range(hSpans) \cup Range(hLogs) \cup Range(hMetrics) }

\* C15: the registry holds exactly the service names of the entities added
\* since construction or the last clear(): every add registers its name,
\* evicting an entity removes no name, and only clear() removes names.
C15_RegistryGrows == services = NamesSinceClear

\* the only span of service B was evicted and B is still registered
C15_Witness ==
    /\ Len(hSpans) > MaxSpans /\ hSpans[1].service_name = "B"
    /\ \A i \in DOMAIN spans : spans[i].service_name = "A"
    /\ hLogs = <<>> /\ hMetrics = <<>>
    /\ "B" \in services

----------------------------------------------------------------------------
(* SpecWire: the OTLP gRPC receiver of server.py: start_otlp_receiver, the  *)
(* Export calls of the collector, get_receiver_status and the stop at exit *)

\* what can happen inside OTLPReceiver.start: the port is bound and the
\* server starts, add_insecure_port raises, or server.start() raises
StartOutcomes == {"ok", "bind_fails", "start_fails"}

\* OTLPReceiver.start with `self._running = True` placed before `await self.server.start()`
OTLPReceiver_start_runningEarly(r, outcome) ==
    IF r.running THEN [receiver |-> r, raised |-> FALSE]
    ELSE IF outcome = "ok"
      THEN [receiver |-> [r EXCEPT !.server = "serving", !.running = TRUE], raised |-> FALSE]
    ELSE IF outcome = "start_fails"
      THEN [receiver |-> [r EXCEPT !.server = "created", !.running = TRUE], raised |-> TRUE]
    ELSE [receiver |-> [r EXCEPT !.server = "created"], raised |-> TRUE]

\* OTLPReceiver.start: the receiver afterwards, and whether the call raised
OTLPReceiver_start(r, outcome) ==
    IF r.running THEN [receiver |-> r, raised |-> FALSE]
    ELSE IF outcome = "ok"
      THEN [receiver |-> [r EXCEPT !.server = "serving", !.running = TRUE], raised |-> FALSE]
    ELSE [receiver |-> [r EXCEPT !.server = "created"], raised |-> TRUE]

\* OTLPReceiver.stop that only resets the flag
OTLPReceiver_stop_flagOnly(r) ==
    IF r.server # "none" /\ r.running THEN [r EXCEPT !.running = FALSE] ELSE r

\* OTLPReceiver.stop
OTLPReceiver_stop(r) ==
    IF r.server # "none" /\ r.running
      THEN [r EXCEPT !.server = "stopped", !.running = FALSE]
      ELSE r

\* start_otlp_receiver: the global is assigned, start() is awaited and an
\* exception it raises is printed and dropped
start_otlp_receiver ==
    \E outcome \in StartOutcomes :
        /\ ~receiver.configured /\ ~rpc.stopped
        /\ LET res == OTLPReceiver_start([receiver EXCEPT !.configured = TRUE], outcome) IN
              /\ receiver' = res.receiver
              /\ rpc' = [rpc EXCEPT !.startRaised = res.raised]
        /\ UNCHANGED <<storeVars, histVars, ret, concVars, watchVars, din, dout>>

\* `await otlp_receiver.stop()` at exit
StopReceiver ==
    /\ ~rpc.stopped
    /\ receiver' = OTLPReceiver_stop(receiver)
    /\ rpc' = [rpc EXCEPT !.stopped = TRUE]
    /\ UNCHANGED <<storeVars, histVars, ret, concVars, watchVars, din, dout>>

\* call_tool "get_receiver_status"
GetReceiverStatus ==
    /\ ret = NoRet
    /\ ret' = [op |-> "get_receiver_status", args |-> <<>>,
               value |-> [otlp_receiver |->
                              [running |-> IF receiver.configured
                                             THEN receiver.running ELSE FALSE,
                               configured |-> receiver.configured],
                          store_stats |-> Stats(spans, logs, metrics, services),
                          services_discovered |-> SortedNames(services)]]
    /\ UNCHANGED <<storeVars, histVars, concVars, watchVars, decVars>>

(* An ExportTraceServiceRequest is a sequence of (resource, scope) groups; *)
(* decoding a group gives its spans or raises.                            *)
WireSpans == << Span("T1", "A", 1, "OK"), Span("T2", "B", 2, "ERROR") >>
WireGroups ==
    { [raises |-> FALSE, spans |-> << WireSpans[1] >>],
      [raises |-> FALSE, spans |-> WireSpans],
      [raises |-> TRUE, spans |-> << WireSpans[2] >>] }
WireBatches == { <<g>> : g \in WireGroups } \cup { <<g, h>> : g \in WireGroups, h \in WireGroups }

\* the loops of TraceServiceServicer.Export: the spans handed to add_span,
\* group after group, until the request is done or parse_span_from_proto raises
RECURSIVE Exported(_)
Exported(batch) ==
    IF batch = <<>> THEN [entities |-> <<>>, raised |-> FALSE]
    ELSE IF Head(batch).raises THEN [entities |-> <<>>, raised |-> TRUE]
    ELSE LET rest == Exported(Tail(batch)) IN
         [entities |-> Head(batch).spans \o rest.entities, raised |-> rest.raised]

\* TraceServiceServicer.Export on one request of the set `batches`
Export(batches) ==
    \E batch \in batches :
        /\ receiver.server = "serving" /\ rpc.exports < MaxExports
        /\ LET out == Exported(batch) IN
              /\ spans' = AddAll(spans, out.entities, MaxSpans)
              /\ services' = services \cup { out.entities[i].service_name
                                                : i \in DOMAIN out.entities }
              /\ hSpans' = hSpans \o out.entities
              /\ rpc' = [rpc EXCEPT !.exports = @ + 1, !.batch = batch,
                                    !.raised = out.raised, !.before = Len(hSpans)]
        /\ UNCHANGED <<logs, metrics, hLogs, hMetrics, ret, receiver,
                       concVars, watchVars, din, dout>>

ExportTraces == Export(WireBatches)

InitWire ==
    /\ StoreInit /\ ret = NoRet
    /\ ConcIdle /\ WatchIdle /\ DecIdle

NextWire ==
    \/ start_otlp_receiver \/ StopReceiver \/ ExportTraces
    \/ GetReceiverStatus \/ GetStats \/ Return

SpecWire == InitWire /\ [][NextWire]_vars

\* every span of the request, in the order of the request
RECURSIVE AllSpans(_)
AllSpans(batch) ==
    IF batch = <<>> THEN <<>> ELSE Head(batch).spans \o AllSpans(Tail(batch))

\* C17: when the receiver fails to bind or to start, OTLPReceiver.start
\* raises to start_otlp_receiver and is_running stays false; the exception
\* is dropped there, so queries go on being served, and get_receiver_status
\* reports running false.
C17_StartFailure ==
    /\ rpc.startRaised =>
          /\ ~receiver.running /\ receiver.configured /\ receiver.server # "serving"
          /\ ret.op = "get_receiver_status" => ~ret.value.otlp_receiver.running
    /\ (receiver.configured /\ ~rpc.startRaised /\ ~rpc.stopped) => receiver.running
    /\ ret = NoRet => (ENABLED GetReceiverStatus /\ ENABLED GetStats)

\* the start failed and a later get_receiver_status answered running: false
C17_Witness ==
    /\ rpc.startRaised
    /\ ret.op = "get_receiver_status"
    /\ ~ret.value.otlp_receiver.running /\ ret.value.otlp_receiver.configured

\* C19: an Export call in which decoding raises leaves none of its batch's
\* entities in the store and the receiver running; a batch that decodes
\* fully has every one of its entities added, in order.
C19_ExportAllOrNothing ==
    rpc.exports > 0 =>
        /\ rpc.raised => (Len(hSpans) = rpc.before /\ (~rpc.stopped => receiver.running))
        /\ ~rpc.raised =>
              /\ Len(hSpans) = rpc.before + Len(AllSpans(rpc.batch))
              /\ LastN(hSpans, Len(AllSpans(rpc.batch))) = AllSpans(rpc.batch)

----------------------------------------------------------------------------
(* SpecSources: the file watcher and the wire receiver feeding one store,  *)
(* each started and stopped on its own                                      *)

\* the collector sends requests of one group with one span
SmallBatches == { << [raises |-> FALSE, spans |-> << WireSpans[1] >>] >> }
ExportSmall == Export(SmallBatches)

InitSources == InitWatch

NextSources ==
    \/ NextWatch
    \/ start_otlp_receiver \/ StopReceiver \/ ExportSmall

SpecSources == InitSources /\ [][NextSources]_vars

----------------------------------------------------------------------------
(* SpecReport: the tools analyze_incident and get_service_health, and the   *)
(* queries filtered by service, over a store of spans that carry a duration *)
(* and a code location.  The store is TelemetryStore(max_spans=ReportMaxSpans) *)

ReportMaxSpans   == 3     \* max_spans of the store (10000), above the limits below
SlowTop          == 1     \* [:10] of slow_operations, scaled
HealthWindow     == 2     \* timedelta(minutes=30) of get_service_health, scaled
HealthSpanLimit  == 3     \* limit=500 of get_service_health, scaled
HealthLogLimit   == 2     \* limit=200
HealthMetricLimit == 1    \* limit=100
SlowThresholdMs  == 1000  \* s.duration_ms > 1000
HighErrorRate    == 10    \* error_rate > 10

\* a span with the fields the report reads; code_location is the loc_key
\* "filepath:function:lineno" of the span, None when it has no code info
ReportSpan(svc, t, st, dur, where) ==
    [trace_id |-> "T1", service_name |-> svc, start_time |-> t, status_code |-> st,
     duration_ms |-> dur, code_location |-> where]
ReportLog(svc, sev, t, where) ==
    [service_name |-> svc, severity |-> sev, timestamp |-> t, code_location |-> where]

ReportSpanInputs ==
    { ReportSpan("A", 2, "ERROR", 1001, "f.py:fn:1"),
      ReportSpan("A", 3, "OK",    1000, None),
      ReportSpan("B", 3, "ERROR", 2000, None),
      ReportSpan("B", 1, "OK",    -5,   None),
      ReportSpan("A", 2, "OK",    1500, None) }
ReportLogInputs ==
    { ReportLog("B", "ERROR", 3, "g.py:run:7"),
      ReportLog("A", "FATAL", 2, None),
      ReportLog("A", "INFO",  3, None) }
\* the service names a caller asks about: never ingested, ingested, empty
QueryServices == {"Z", "A", ""}

\* Span.has_code_info / LogRecord.has_code_info
HasCodeInfo(e) == e.code_location # None

\* d[k] = d.get(k, 0) + 1 for every k of `keys` in order; the dict is the
\* sequence of its items in insertion order
RECURSIVE CountInto(_, _)
CountInto(d, keys) ==
    IF keys = <<>> THEN d
    ELSE LET k == Head(keys)
             hit == {i \in DOMAIN d : d[i].key = k}
             d2 == IF hit = {} THEN Append(d, [key |-> k, count |-> 1])
                   ELSE [i \in DOMAIN d |->
                            IF i \in hit THEN [d[i] EXCEPT !.count = @ + 1] ELSE d[i]]
         IN CountInto(d2, Tail(keys))

\* max(d, key=...): the first item, in insertion order, with the largest count
MaxItem(d) ==
    d[CHOOSE i \in DOMAIN d :
        /\ \A j \in DOMAIN d : d[j].count <= d[i].count
        /\ \A j \in 1 .. (i - 1) : d[j].count < d[i].count]

ServiceNames(seq) == [i \in DOMAIN seq |-> seq[i].service_name]
CodeLocations(seq) ==
    LET located == SelectSeq(seq, HasCodeInfo)
    IN [i \in DOMAIN located |-> located[i].code_location]

\* round(num / den, 2) in hundredths, ties to the even neighbour
RoundedHundredths(num, den) ==
    LET q == (100 * num) \div den
        r == (100 * num) % den
    IN IF 2 * r < den THEN q
       ELSE IF 2 * r > den THEN q + 1
       ELSE IF q % 2 = 0 THEN q ELSE q + 1

\* the recommendations as an if / elif chain: the first rule that holds wins
Recommendations_elif(n_error_spans, n_all_spans, slow_spans, errors_by_service, error_code_locations) ==
    IF n_all_spans # 0 /\ 100 * n_error_spans > HighErrorRate * n_all_spans
      THEN << [rule |-> "high_error_rate", name |-> None, count |-> 0] >>
    ELSE IF slow_spans # <<>>
      THEN << [rule |-> "slow_operations", name |-> None, count |-> Len(slow_spans)] >>
    ELSE IF errors_by_service # <<>>
      THEN << [rule |-> "top_error_service",
               name |-> MaxItem(errors_by_service).key,
               count |-> MaxItem(errors_by_service).count] >>
    ELSE IF error_code_locations # <<>>
      THEN << [rule |-> "top_error_location",
               name |-> MaxItem(error_code_locations).key,
               count |-> MaxItem(error_code_locations).count] >>
    ELSE <<>>

\* the recommendations of analyze_incident: four `if` statements in a row,
\* each appending one line
Recommendations(n_error_spans, n_all_spans, slow_spans, errors_by_service, error_code_locations) ==
    (IF n_all_spans # 0 /\ 100 * n_error_spans > HighErrorRate * n_all_spans
       THEN << [rule |-> "high_error_rate", name |-> None, count |-> 0] >> ELSE <<>>)
    \o (IF slow_spans # <<>>
          THEN << [rule |-> "slow_operations", name |-> None,
                   count |-> Len(slow_spans)] >> ELSE <<>>)
    \o (IF errors_by_service # <<>>
          THEN << [rule |-> "top_error_service",
                   name |-> MaxItem(errors_by_service).key,
                   count |-> MaxItem(errors_by_service).count] >> ELSE <<>>)
    \o (IF error_code_locations # <<>>
          THEN << [rule |-> "top_error_location",
                   name |-> MaxItem(error_code_locations).key,
                   count |-> MaxItem(error_code_locations).count] >> ELSE <<>>)

\* call_tool "analyze_incident": the report; `now` is the clock reading of
\* the handler, `now2` the later one inside get_errors
IncidentReport(since_minutes, now, now2) ==
    LET since == now - since_minutes
        errors == Errors(AnalyzeErrorLimit, since_minutes, now2)
        all_spans == RecentSpans(spans, AnalyzeSpanLimit, None, FALSE, since)
        all_logs == RecentLogs(logs, AnalyzeSpanLimit, None, None, FALSE, since)
        slow_spans == SelectSeq(all_spans, LAMBDA x : x.duration_ms > SlowThresholdMs)
        errors_by_service ==
            CountInto(<<>>, ServiceNames(errors.error_spans)
                              \o ServiceNames(errors.error_logs))
        error_code_locations ==
            CountInto(<<>>, CodeLocations(errors.error_spans)
                              \o CodeLocations(errors.error_logs))
    IN [summary |-> [total_spans |-> Len(all_spans),
                     total_logs |-> Len(all_logs),
                     error_spans |-> Len(errors.error_spans),
                     error_logs |-> Len(errors.error_logs),
                     error_rate_percent |->
                         ErrorRate(Len(errors.error_spans), Len(all_spans)),
                     slow_spans_count |-> Len(slow_spans)],
        errors_by_service |-> errors_by_service,
        error_code_locations |-> error_code_locations,
        slow_operations |->
            PySliceTo(StableSort(slow_spans,
                                 [i \in DOMAIN slow_spans |-> slow_spans[i].duration_ms],
                                 TRUE), SlowTop),
        recommendations |->
            Recommendations(Len(errors.error_spans), Len(all_spans), slow_spans,
                            errors_by_service, error_code_locations)]

RECURSIVE SumDurations(_)
SumDurations(seq) ==
    IF seq = <<>> THEN 0 ELSE Head(seq).duration_ms + SumDurations(Tail(seq))

\* call_tool "get_service_health"
ServiceHealth(service, now) ==
    LET since == now - HealthWindow
        found == RecentSpans(spans, HealthSpanLimit, service, FALSE, since)
        foundLogs == RecentLogs(logs, HealthLogLimit, service, None, FALSE, since)
        foundMetrics == RecentMetrics(metrics, HealthMetricLimit, service, None, since)
        error_spans == SelectSeq(found, SpanIsError)
        error_logs == SelectSeq(foundLogs, LogIsError)
        rate == IF found # <<>> THEN RoundedPercent(Len(error_spans), Len(found)) ELSE 0
    IN [service |-> service,
        spans |-> [total |-> Len(found), errors |-> Len(error_spans),
                   error_rate_percent |-> rate,
                   avg_duration_ms |->
                       IF found # <<>>
                         THEN RoundedHundredths(SumDurations(found), Len(found)) ELSE 0],
        logs |-> [total |-> Len(foundLogs), errors |-> Len(error_logs),
                  by_severity |-> CountInto(<<>>, [i \in DOMAIN foundLogs |->
                                                      foundLogs[i].severity])],
        metrics_count |-> Len(foundMetrics),
        status |-> IF rate > 2000 THEN "critical"
                   ELSE IF rate > 500 THEN "degraded"
                   ELSE IF error_logs # <<>> THEN "warning"
                   ELSE "healthy"]

AddReportSpan ==
    \E s \in ReportSpanInputs :
        /\ ret = NoRet /\ Adds < MaxAdds
        /\ spans' = DequeAppend(spans, s, ReportMaxSpans)
        /\ services' = services \cup {s.service_name}
        /\ hSpans' = Append(hSpans, s)
        /\ UNCHANGED <<logs, metrics, hLogs, hMetrics, ret, concVars, watchVars, decVars>>
AddReportLog ==
    \E l \in ReportLogInputs :
        /\ ret = NoRet /\ Adds < MaxAdds
        /\ add_log(l)
        /\ UNCHANGED <<ret, concVars, watchVars, decVars>>
AnalyzeReport ==
    \E since_minutes \in MinutesArgs, now \in Clock, now2 \in Clock :
        /\ ret = NoRet /\ now2 >= now
        /\ ret' = [op |-> "analyze_incident",
                   args |-> [since_minutes |-> since_minutes, since |-> now - since_minutes],
                   value |-> IncidentReport(since_minutes, now, now2)]
        /\ UNCHANGED <<storeVars, histVars, concVars, watchVars, decVars>>
GetServiceHealth ==
    \E service \in QueryServices, now \in Clock :
        /\ ret = NoRet
        /\ ret' = [op |-> "get_service_health",
                   args |-> [service |-> service, since |-> now - HealthWindow],
                   value |-> ServiceHealth(service, now)]
        /\ UNCHANGED <<storeVars, histVars, concVars, watchVars, decVars>>
SpansOfService ==
    \E service \in QueryServices :
        /\ ret = NoRet
        /\ get_recent_spans(MaxLimit, service, FALSE, NoTime)
        /\ UNCHANGED <<concVars, watchVars, decVars>>
LogsOfService ==
    \E service \in QueryServices :
        /\ ret = NoRet
        /\ get_recent_logs(MaxLimit, service, None, FALSE, NoTime)
        /\ UNCHANGED <<concVars, watchVars, decVars>>
MetricsOfService ==
    \E service \in QueryServices :
        /\ ret = NoRet
        /\ get_recent_metrics(MaxLimit, service, None, NoTime)
        /\ UNCHANGED <<concVars, watchVars, decVars>>

NextReport ==
    \/ AddReportSpan \/ AddReportLog \/ AddMetric
    \/ AnalyzeReport \/ GetServiceHealth
    \/ SpansOfService \/ LogsOfService \/ MetricsOfService
    \/ Return

SpecReport == Init /\ [][NextReport]_vars

\* the answer of a query by service is empty, with zero counts
EmptyAnswer ==
    /\ ret.op \in {"get_recent_spans", "get_recent_logs", "get_recent_metrics"}
          => ret.value = <<>>
    /\ ret.op = "get_service_health" =>
          /\ ret.value.spans.total = 0 /\ ret.value.spans.errors = 0
          /\ ret.value.spans.error_rate_percent = 0
          /\ ret.value.logs.total = 0 /\ ret.value.logs.errors = 0
          /\ ret.value.logs.by_severity = <<>>
          /\ ret.value.metrics_count = 0

ByService ==
    ret.op \in {"get_recent_spans", "get_recent_logs", "get_recent_metrics",
                "get_service_health"}

\* C22 as stated: a query by a service name X that no retained entity carries
\* answers empty, for every value of X.
C22_UnknownServiceAnyName ==
    (ByService /\ ret.args.service \notin HeldNames) => EmptyAnswer

\* C22: a query by a non-empty service name X that no retained entity
\* carries answers empty with zero counts; the empty name is no filter.
C22_UnknownServiceEmpty ==
    (ByService /\ ret.args.service # "" /\ ret.args.service \notin HeldNames)
        => EmptyAnswer

\* the store holds entities of A and B, and the health of Z came back empty
C22_Witness ==
    /\ ret.op = "get_service_health" /\ ret.args.service = "Z"
    /\ spans # <<>> /\ logs # <<>>
    /\ ret.value.spans.total = 0 /\ ret.value.status = "healthy"

\* the spans of the trailing window, all of them
WindowSpans(since) == SelectSeq(spans, LAMBDA x : x.start_time >= since)
DurationsOf(seq) == [i \in DOMAIN seq |-> seq[i].duration_ms]

\* C28: slow_operations is the spans of the trailing window with duration_ms
\* strictly above 1000, by duration descending, cut to the top SlowTop; a
\* span of exactly 1000 ms or less is never listed.
C28_SlowOperations ==
    ret.op = "analyze_incident" =>
        LET slow == SelectSeq(WindowSpans(ret.args.since),
                              LAMBDA x : x.duration_ms > SlowThresholdMs)
            ranked == StableSort(slow, DurationsOf(slow), TRUE)
            listed == ret.value.slow_operations
        IN /\ DurationsOf(listed) = DurationsOf(PySliceTo(ranked, SlowTop))
           /\ \A i \in DOMAIN listed : listed[i] \in Range(slow)

RuleOrder == << "high_error_rate", "slow_operations", "top_error_service",
                "top_error_location" >>
RuleRank(r) == CHOOSE k \in DOMAIN RuleOrder : RuleOrder[k] = r
Fired(report) == { report.recommendations[i].rule : i \in DOMAIN report.recommendations }

----------------------------------------------------------------------------
(* SpecRoute and SpecChunk: _parse_and_store on decoded documents, and the  *)
(* line loop of _process_file on chunks that hold more than well-formed     *)
(* JSON lines.  din is the last input, dout what the handler did with it.   *)

MaxParses == 2      \* documents handed to _parse_and_store in one behaviour of SpecRoute
MaxChunks == 2      \* chunks read in one behaviour of SpecChunk
MaxLines  == 2      \* lines of one chunk

\* one resource entry of a document: the scope list it carries
\* (scopeSpans / scopeLogs / scopeMetrics) and the records below it;
\* building a record's entity gives the entity or raises
Entry(kind, records) == [kind |-> kind, records |-> records]
Rec(e)    == [entity |-> e, raises |-> FALSE]
BadRec(e) == [entity |-> e, raises |-> TRUE]
NoEntry   == Entry("none", <<>>)

\* a decoded JSON object: its top-level keys among the three resource keys,
\* the resource entries under each, and the document read as a resource
\* entry itself (what the parse functions see when called on `data`)
Doc(keys, rs, rl, rm, top) ==
    [keys |-> keys, resourceSpans |-> rs, resourceLogs |-> rl, resourceMetrics |-> rm,
     top |-> top]

Document(k) ==
    CASE k = 1 -> Doc({"resourceSpans"},
                      << Entry("span", << Rec(Span("T1", "A", 1, "OK")) >>) >>,
                      <<>>, <<>>, NoEntry)
      [] k = 2 -> Doc({"resourceLogs"}, <<>>,
                      << Entry("log", << Rec(LogRecord("B", "ERROR", 2)) >>) >>,
                      <<>>, NoEntry)
      [] k = 3 -> Doc({"resourceMetrics"}, <<>>, <<>>,
                      << Entry("metric", << Rec(MetricDataPoint("A", "cpu", 3)) >>) >>,
                      NoEntry)
      [] k = 4 -> Doc({}, <<>>, <<>>, <<>>,
                      Entry("span", << Rec(Span("T2", "A", 4, "OK")) >>))
      [] k = 5 -> Doc({}, <<>>, <<>>, <<>>,
                      Entry("log", << Rec(LogRecord("A", "INFO", 5)) >>))
      [] k = 6 -> Doc({}, <<>>, <<>>, <<>>,
                      Entry("metric", << Rec(MetricDataPoint("B", "mem", 6)) >>))
      [] k = 7 -> Doc({"resourceSpans"},
                      << Entry("span", << Rec(Span("T3", "A", 7, "OK")),
                                          BadRec(Span("T3", "A", 8, "ERROR")),
                                          Rec(Span("T3", "A", 9, "OK")) >>),
                         Entry("span", << Rec(Span("T4", "B", 7, "OK")) >>) >>,
                      <<>>, <<>>, NoEntry)
      [] OTHER -> Doc({"resourceSpans", "resourceLogs"},
                      << Entry("span", << Rec(Span("T5", "B", 8, "OK")) >>) >>,
                      << Entry("log", << Rec(LogRecord("B", "WARN", 8)) >>) >>,
                      <<>>, NoEntry)
DocIds == 1 .. 8

\* path.stem.lower() of the watched file, and the words `in` finds in it
Stems == {"traces", "spans", "logs", "metrics", "other", "tracelog"}
StemWords(stem) ==
    CASE stem = "traces"   -> {"trace"}
      [] stem = "spans"    -> {"span"}
      [] stem = "logs"     -> {"log"}
      [] stem = "metrics"  -> {"metric"}
      [] stem = "tracelog" -> {"trace", "log"}
      [] OTHER             -> {}

\* parse_span_from_otel / parse_log_from_otel / parse_metric_from_otel on one
\* resource entry: its entities, or None (no entity) when the entry has no
\* record of that kind or when building any record raised, the try/except
\* being around the whole function
ParseEntry(entry, kind) ==
    IF entry.kind # kind THEN <<>>
    ELSE IF \E i \in DOMAIN entry.records : entry.records[i].raises THEN <<>>
    ELSE [i \in DOMAIN entry.records |-> entry.records[i].entity]

\* _parse_and_store with the file name deciding before the keys
Route_hintFirst(data, stem) ==
    IF "trace" \in StemWords(stem) \/ "span" \in StemWords(stem)
      THEN [kind |-> "span", entries |-> << data.top >>]
    ELSE IF "log" \in StemWords(stem)
      THEN [kind |-> "log", entries |-> << data.top >>]
    ELSE IF "metric" \in StemWords(stem)
      THEN [kind |-> "metric", entries |-> << data.top >>]
    ELSE IF "resourceSpans" \in data.keys
      THEN [kind |-> "span", entries |-> data.resourceSpans]
    ELSE IF "resourceLogs" \in data.keys
      THEN [kind |-> "log", entries |-> data.resourceLogs]
    ELSE IF "resourceMetrics" \in data.keys
      THEN [kind |-> "metric", entries |-> data.resourceMetrics]
    ELSE [kind |-> "none", entries |-> <<>>]

\* the if / elif chain of _parse_and_store: the parse function that is used
\* and the resource entries it is called on
Route(data, stem) ==
    IF "resourceSpans" \in data.keys
      THEN [kind |-> "span", entries |-> data.resourceSpans]
    ELSE IF "resourceLogs" \in data.keys
      THEN [kind |-> "log", entries |-> data.resourceLogs]
    ELSE IF "resourceMetrics" \in data.keys
      THEN [kind |-> "metric", entries |-> data.resourceMetrics]
    ELSE IF "trace" \in StemWords(stem) \/ "span" \in StemWords(stem)
      THEN [kind |-> "span", entries |-> << data.top >>]
    ELSE IF "log" \in StemWords(stem)
      THEN [kind |-> "log", entries |-> << data.top >>]
    ELSE IF "metric" \in StemWords(stem)
      THEN [kind |-> "metric", entries |-> << data.top >>]
    ELSE [kind |-> "none", entries |-> <<>>]

\* the entities _parse_and_store adds, entry after entry
RECURSIVE RoutedEntities(_, _)
RoutedEntities(entries, kind) ==
    IF entries = <<>> THEN <<>>
    ELSE ParseEntry(Head(entries), kind) \o RoutedEntities(Tail(entries), kind)

\* TelemetryFileHandler._parse_and_store(data, file_type_hint) on the store st
parse_and_store(st, data, stem) ==
    LET r == Route(data, stem)
        es == RoutedEntities(r.entries, r.kind)
        names == { es[i].service_name : i \in DOMAIN es }
    IN IF r.kind = "span"
         THEN [st EXCEPT !.spans = AddAll(@, es, MaxSpans),
                         !.services = @ \cup names, !.hSpans = @ \o es]
       ELSE IF r.kind = "log"
         THEN [st EXCEPT !.logs = AddAll(@, es, MaxLogs),
                         !.services = @ \cup names, !.hLogs = @ \o es]
       ELSE IF r.kind = "metric"
         THEN [st EXCEPT !.metrics = AddAll(@, es, MaxMetrics),
                         !.services = @ \cup names, !.hMetrics = @ \o es]
       ELSE st

HistoryLengths == [spans |-> Len(hSpans), logs |-> Len(hLogs), metrics |-> Len(hMetrics)]

\* one decoded document of a file named `stem` reaches _parse_and_store
ParseDocument ==
    \E k \in DocIds, stem \in Stems :
        /\ din.kind \in {"none", "document"}
        /\ (IF din.kind = "none" THEN 0 ELSE din.n) < MaxParses
        /\ SetStore(parse_and_store(StoreVal, Document(k), stem))
        /\ din' = [kind |-> "document", doc |-> k, stem |-> stem,
                   n |-> (IF din.kind = "none" THEN 0 ELSE din.n) + 1]
        /\ dout' = [before |-> HistoryLengths]
        /\ UNCHANGED <<ret, concVars, watchVars, receiver, rpc>>

SpecRoute == InitDecode /\ [][ParseDocument]_vars

\* the entities added by the last document, per kind
AddedSpans   == SubSeq(hSpans, dout.before.spans + 1, Len(hSpans))
AddedLogs    == SubSeq(hLogs, dout.before.logs + 1, Len(hLogs))
AddedMetrics == SubSeq(hMetrics, dout.before.metrics + 1, Len(hMetrics))
GrownKinds ==
    (IF AddedSpans # <<>> THEN {"span"} ELSE {})
      \cup (IF AddedLogs # <<>> THEN {"log"} ELSE {})
      \cup (IF AddedMetrics # <<>> THEN {"metric"} ELSE {})

\* every record of the entries, raising or not
RECURSIVE AllRecords(_)
AllRecords(entries) ==
    IF entries = <<>> THEN <<>> ELSE Head(entries).records \o AllRecords(Tail(entries))
EntitiesOf(records) == [i \in DOMAIN records |-> records[i].entity]
Decodable(records) == SelectSeq(records, LAMBDA r : ~r.raises)

\* the kinds the document's keys name, and the kinds the file name hints at
KeyKinds(data) ==
    (IF "resourceSpans" \in data.keys THEN {"span"} ELSE {})
      \cup (IF "resourceLogs" \in data.keys THEN {"log"} ELSE {})
      \cup (IF "resourceMetrics" \in data.keys THEN {"metric"} ELSE {})
HintKinds(stem) ==
    (IF StemWords(stem) \cap {"trace", "span"} # {} THEN {"span"} ELSE {})
      \cup (IF "log" \in StemWords(stem) THEN {"log"} ELSE {})
      \cup (IF "metric" \in StemWords(stem) THEN {"metric"} ELSE {})
EntriesOfKind(data, kind) ==
    IF kind = "span" THEN data.resourceSpans
    ELSE IF kind = "log" THEN data.resourceLogs ELSE data.resourceMetrics
AddedOfKind(kind) ==
    IF kind = "span" THEN AddedSpans ELSE IF kind = "log" THEN AddedLogs ELSE AddedMetrics

\* C26: a document adds entities of at most one kind; with a resource key
\* present that kind is one the keys name, whatever the file is called, and
\* a document with exactly one key, all of whose records decode, has the
\* records under that key added;
\* with no key the kind is one the file name hints at and the document's own
\* records of that kind are added; with no key and no hint nothing is added.
C26_RoutedOnce ==
    din.kind = "document" =>
        LET data == Document(din.doc)
            keyed == KeyKinds(data)
            hinted == HintKinds(din.stem)
        IN /\ Cardinality(GrownKinds) <= 1
           /\ keyed # {} => GrownKinds \subseteq keyed
           /\ Cardinality(keyed) = 1 =>
                 \A kind \in keyed :
                     LET records == AllRecords(EntriesOfKind(data, kind)) IN
                     Decodable(records) = records =>
                         AddedOfKind(kind) = EntitiesOf(records)
           /\ keyed = {} => GrownKinds \subseteq hinted
           /\ (keyed = {} /\ Cardinality(hinted) = 1) =>
                 \A kind \in hinted :
                     AddedOfKind(kind) =
                        (IF data.top.kind = kind THEN EntitiesOf(data.top.records) ELSE <<>>)
           /\ (keyed = {} /\ hinted = {}) => GrownKinds = {}

\* a resourceLogs document read from a file called traces added its log, and
\* no span
C26_Witness ==
    /\ din.kind = "document" /\ din.doc = 2 /\ din.stem = "traces"
    /\ AddedLogs # <<>> /\ AddedSpans = <<>>

\* C27: every record of the routed resource entries whose decoding does not
\* raise has been added, also when another record of the same entry raises.
C27_RecordIsolated ==
    din.kind = "document" =>
        LET r == Route(Document(din.doc), din.stem)
            right == SelectSeq(r.entries, LAMBDA en : en.kind = r.kind)
        IN r.kind # "none" =>
              AddedOfKind(r.kind) = EntitiesOf(Decodable(AllRecords(right)))

----------------------------------------------------------------------------
(* SpecChunk: the line loop of _process_file on chunks whose lines are not  *)
(* all JSON objects                                                         *)

\* further pieces of file text: a complete JSON value that is not an object
\* (null, 5, "x", [1]), text that is not JSON, and the two halves of a
\* pretty-printed JSON array
Scalar == [doc |-> 0, part |-> "S"]
Junk   == [doc |-> 0, part |-> "X"]
HA     == [doc |-> 0, part |-> "HA"]
TA     == [doc |-> 0, part |-> "TA"]

ChunkStem == "traces"
PrettyDoc == 3

\* the lines an exporter or an editor may leave in the file
ChunkLines ==
    { << H(1), T(1) >>, << H(2), T(2) >>, << Scalar >>, << Junk >>,
      << H(PrettyDoc) >>, << T(PrettyDoc) >>, << HA >>, << TA >>, <<>> }
Chunks == UNION { [1 .. m -> ChunkLines] : m \in 1 .. MaxLines }

\* the text of a sequence of lines, each ended by a newline
RECURSIVE JoinLines(_)
JoinLines(ls) == IF ls = <<>> THEN <<>> ELSE Head(ls) \o << NL >> \o JoinLines(Tail(ls))

\* json.loads(text): the value, or JSONDecodeError (ok = FALSE); whitespace
\* around and between JSON tokens is ignored
JsonValue(text) ==
    LET toks == SelectSeq(text, LAMBDA b : b # NL) IN
    IF Len(toks) = 2 /\ toks[1].part = "H" /\ toks[2].part = "T" /\ toks[1].doc = toks[2].doc
      THEN [ok |-> TRUE, kind |-> "object", doc |-> toks[1].doc]
    ELSE IF toks = << Scalar >> \/ toks = << HA, TA >>
      THEN [ok |-> TRUE, kind |-> "other", doc |-> 0]
    ELSE [ok |-> FALSE, kind |-> "error", doc |-> 0]

\* the line loop going on with the next line after a whole-chunk document
RECURSIVE process_lines_noBreak(_, _, _, _)
process_lines_noBreak(st, lines, new_content, stem) ==
    IF lines = <<>> THEN [st |-> st, handed |-> <<>>, aborted |-> FALSE]
    ELSE LET line == Head(lines)
             v == JsonValue(line)
             w == JsonValue(new_content)
         IN IF Strip(line) = <<>> THEN process_lines_noBreak(st, Tail(lines), new_content, stem)
            ELSE IF v.ok /\ v.kind # "object"
              THEN [st |-> st, handed |-> << [doc |-> 0, mode |-> "line"] >>, aborted |-> TRUE]
            ELSE IF v.ok
              THEN LET rest == process_lines_noBreak(parse_and_store(st, Document(v.doc), stem),
                                                     Tail(lines), new_content, stem)
                   IN [rest EXCEPT !.handed = << [doc |-> v.doc, mode |-> "line"] >> \o @]
            ELSE IF w.ok /\ w.kind # "object"
              THEN [st |-> st, handed |-> << [doc |-> 0, mode |-> "whole"] >>, aborted |-> TRUE]
            ELSE IF w.ok
              THEN LET rest == process_lines_noBreak(parse_and_store(st, Document(w.doc), stem),
                                                     Tail(lines), new_content, stem)
                   IN [rest EXCEPT !.handed = << [doc |-> w.doc, mode |-> "whole"] >> \o @]
            ELSE process_lines_noBreak(st, Tail(lines), new_content, stem)

\* the line loop of _process_file: the store after it, the values handed to
\* _parse_and_store in order, and whether an exception other than
\* JSONDecodeError ended the loop.  _parse_and_store begins with
\* list(data.keys()), which raises AttributeError on a value that is not an
\* object; the except clauses of the loop catch JSONDecodeError only, so the
\* exception leaves the loop and is caught by the `except Exception` around
\* the whole of _process_file.
RECURSIVE process_lines(_, _, _, _)
process_lines(st, lines, new_content, stem) ==
    IF lines = <<>> THEN [st |-> st, handed |-> <<>>, aborted |-> FALSE]
    ELSE LET line == Head(lines)
             v == JsonValue(line)
             w == JsonValue(new_content)
         IN IF Strip(line) = <<>> THEN process_lines(st, Tail(lines), new_content, stem)
            ELSE IF v.ok /\ v.kind # "object"
              THEN [st |-> st, handed |-> << [doc |-> 0, mode |-> "line"] >>, aborted |-> TRUE]
            ELSE IF v.ok
              THEN LET rest == process_lines(parse_and_store(st, Document(v.doc), stem),
                                             Tail(lines), new_content, stem)
                   IN [rest EXCEPT !.handed = << [doc |-> v.doc, mode |-> "line"] >> \o @]
            ELSE IF w.ok /\ w.kind # "object"
              THEN [st |-> st, handed |-> << [doc |-> 0, mode |-> "whole"] >>, aborted |-> TRUE]
            ELSE IF w.ok
              THEN [st |-> parse_and_store(st, Document(w.doc), stem),
                    handed |-> << [doc |-> w.doc, mode |-> "whole"] >>, aborted |-> FALSE]
            ELSE process_lines(st, Tail(lines), new_content, stem)

\* _process_file from the read of new_content on: nothing to do for
\* whitespace, else the line loop over new_content.strip().split('\n')
process_chunk(st, new_content, stem) ==
    IF Strip(new_content) = <<>> THEN [st |-> st, handed |-> <<>>, aborted |-> FALSE]
    ELSE process_lines(st, SplitLines(Strip(new_content)), new_content, stem)

\* one notification: the text appended since the last read is processed
TailChunk ==
    \E ls \in Chunks :
        LET new_content == JoinLines(ls)
            r == process_chunk(StoreVal, new_content, ChunkStem)
            n == IF din.kind = "none" THEN 0 ELSE din.n
        IN /\ din.kind \in {"none", "chunk"}
           /\ n < MaxChunks
           /\ SetStore(r.st)
           /\ din' = [kind |-> "chunk", content |-> new_content, n |-> n + 1]
           /\ dout' = [before |-> HistoryLengths, handed |-> r.handed, aborted |-> r.aborted]
           /\ UNCHANGED <<ret, concVars, watchVars, receiver, rpc>>

SpecChunk == InitDecode /\ [][TailChunk]_vars

\* the non-blank lines of the last chunk, as the loop sees them
ChunkLinesSeen ==
    SelectSeq(SplitLines(Strip(din.content)), LAMBDA line : Strip(line) # <<>>)

\* the entities of one kind that _parse_and_store adds for the documents docs
RECURSIVE EntitiesOfDocs(_, _)
EntitiesOfDocs(docs, kind) ==
    IF docs = <<>> THEN <<>>
    ELSE LET r == Route(Document(Head(docs)), ChunkStem) IN
         (IF r.kind = kind THEN RoutedEntities(r.entries, kind) ELSE <<>>)
            \o EntitiesOfDocs(Tail(docs), kind)

\* the documents of the lines that are JSON objects by themselves
RECURSIVE StandaloneDocs(_)
StandaloneDocs(lines) ==
    IF lines = <<>> THEN <<>>
    ELSE (IF JsonValue(Head(lines)).kind = "object"
            THEN << JsonValue(Head(lines)).doc >> ELSE <<>>)
            \o StandaloneDocs(Tail(lines))

\* C24: when the chunk is not one JSON document, the entities of every line
\* that is a JSON document by itself have been added, in the order of the
\* lines, whatever the other lines of the chunk hold.
C24_OtherLinesStored ==
    (din.kind = "chunk" /\ ~JsonValue(din.content).ok) =>
        \A kind \in {"span", "log", "metric"} :
            AddedOfKind(kind) = EntitiesOfDocs(StandaloneDocs(ChunkLinesSeen), kind)

\* C25: when a line of the chunk is not JSON by itself and the whole chunk
\* is one JSON document, that document is the only value handed to
\* _parse_and_store and its entities have been added exactly once; in no
\* chunk is a value handed on as a line and another as the whole chunk.
C25_WholeChunkOnce ==
    din.kind = "chunk" =>
        LET w == JsonValue(din.content)
            failed == \E i \in DOMAIN ChunkLinesSeen : ~JsonValue(ChunkLinesSeen[i]).ok
        IN /\ (failed /\ w.ok) =>
                 /\ dout.handed = << [doc |-> w.doc, mode |-> "whole"] >>
                 /\ \A kind \in {"span", "log", "metric"} :
                        AddedOfKind(kind) =
                           (IF w.kind = "object" THEN EntitiesOfDocs(<< w.doc >>, kind)
                                                 ELSE <<>>)
           /\ (\E i \in DOMAIN dout.handed : dout.handed[i].mode = "whole")
                 => Len(dout.handed) = 1

\* a pretty-printed metrics document, its two halves on two lines, was added
\* once
C25_Witness ==
    /\ din.kind = "chunk"
    /\ din.content = << H(PrettyDoc), NL, T(PrettyDoc), NL >>
    /\ dout.handed = << [doc |-> PrettyDoc, mode |-> "whole"] >>
    /\ Len(AddedMetrics) = 1 /\ AddedSpans = <<>> /\ AddedLogs = <<>>

----------------------------------------------------------------------------
(* SpecTail: one TelemetryWatcher over its life: start, notifications,     *)
(* stop and start again, on a file that is appended to, emptied or         *)
(* replaced by a shorter one.  A notification is one step, the handler's   *)
(* lock letting one _process_file run at a time.                           *)

\* the documents written to the file, each on a line of its own
TailIds == 1 .. (MaxLines + 1)
Line(k) == << H(k), T(k), NL >>

InitTail ==
    /\ StoreInit /\ ret = NoRet
    /\ file = <<>>
    /\ handler = NoHandler
    /\ observer = FALSE /\ running = FALSE
    /\ hlock = None /\ wpc = <<>> /\ wloc = <<>>
    /\ wghost = [writes |-> 0, starts |-> 0, stops |-> 0, last |-> "none",
                 count |-> [k \in TailIds |-> 0], atStop |-> [k \in TailIds |-> 0]]
    /\ ConcIdle /\ DecIdle

\* how often each document of docs occurs
Occurrences(docs) == [k \in TailIds |-> Cardinality({i \in DOMAIN docs : docs[i] = k})]

\* the exporter appends the next document as one line
TailAppend ==
    /\ wghost.writes < MaxLines + 1
    /\ Len(file) < 3 * MaxLines
    /\ file' = file \o Line(wghost.writes + 1)
    /\ wghost' = [wghost EXCEPT !.writes = @ + 1, !.last = "append"]
    /\ UNCHANGED <<storeVars, histVars, ret, handler, observer, running, hlock, wpc, wloc,
                   concVars, decVars>>

\* the file is emptied, or replaced by a shorter file holding one new document
TailReplace ==
    /\ wghost.writes < MaxLines + 1
    /\ \E content \in {<<>>, Line(wghost.writes + 1)} :
          /\ Len(content) < Len(file)
          /\ file' = content
    /\ wghost' = [wghost EXCEPT !.writes = @ + 1, !.last = "replace"]
    /\ UNCHANGED <<storeVars, histVars, ret, handler, observer, running, hlock, wpc, wloc,
                   concVars, decVars>>

\* TelemetryWatcher.start() on a watcher that is running: `if self._running: return`
StartRunning ==
    /\ running /\ wghost.last # "start_running"
    /\ wghost' = [wghost EXCEPT !.last = "start_running"]
    /\ UNCHANGED <<storeVars, histVars, ret, file, handler, observer, running, hlock, wpc,
                   wloc, concVars, decVars>>

\* TelemetryWatcher.start() on a watcher that is not running:
\* _load_existing_files() reads the file from its beginning and stores its
\* lines; `if self._handler:` notes len(content) in the handler of the run
\* before, if there was one; then a new TelemetryFileHandler, with no
\* offsets, and a new Observer take over
StartWatcher ==
    /\ ~running /\ wghost.starts < MaxChunks
    /\ LET content == file
           docs == LoadDocs(SplitLines(Strip(content)))
       IN /\ SetStore(StoreDocs(StoreVal, docs))
          /\ wghost' = [wghost EXCEPT !.starts = @ + 1, !.last = "start",
                           !.count = [k \in TailIds |-> @[k] + Occurrences(docs)[k]]]
    /\ handler' = [exists |-> TRUE, positions |-> <<>>]
    /\ observer' = TRUE /\ running' = TRUE
    /\ UNCHANGED <<ret, file, hlock, wpc, wloc, concVars, decVars>>

\* TelemetryWatcher.stop() on a running watcher: the observer is stopped and
\* joined, self._handler is kept
StopWatcher ==
    /\ running
    /\ observer' = FALSE /\ running' = FALSE
    /\ wghost' = [wghost EXCEPT !.stops = @ + 1, !.last = "stop", !.atStop = wghost.count]
    /\ UNCHANGED <<storeVars, histVars, ret, file, handler, hlock, wpc, wloc,
                   concVars, decVars>>

\* _process_file noting the length of the file as the new offset
TailNotify_offsetAtEnd ==
    /\ observer
    /\ LET last_pos == DictGet(handler.positions, WatchedPath, 0)
           new_content == SubSeq(file, last_pos + 1, Len(file))
           docs == IF Strip(new_content) = <<>> THEN <<>>
                   ELSE TailDocs(SplitLines(Strip(new_content)), new_content)
       IN /\ handler' = [handler EXCEPT
                           !.positions = DictSet(@, WatchedPath, Len(file))]
          /\ SetStore(StoreDocs(StoreVal, docs))
          /\ wghost' = [wghost EXCEPT !.last = "notify",
                           !.count = [k \in TailIds |-> @[k] + Occurrences(docs)[k]]]
    /\ UNCHANGED <<ret, file, observer, running, hlock, wpc, wloc, concVars, decVars>>

\* on_created / on_modified: _process_file for the watched file
TailNotify ==
    /\ observer
    /\ LET last_pos == DictGet(handler.positions, WatchedPath, 0)
           new_content == SubSeq(file, last_pos + 1, Len(file))
           docs == IF Strip(new_content) = <<>> THEN <<>>
                   ELSE TailDocs(SplitLines(Strip(new_content)), new_content)
       IN /\ handler' = [handler EXCEPT
                           !.positions = DictSet(@, WatchedPath, Tell(last_pos, Len(file)))]
          /\ SetStore(StoreDocs(StoreVal, docs))
          /\ wghost' = [wghost EXCEPT !.last = "notify",
                           !.count = [k \in TailIds |-> @[k] + Occurrences(docs)[k]]]
    /\ UNCHANGED <<ret, file, observer, running, hlock, wpc, wloc, concVars, decVars>>

NextTail ==
    \/ TailAppend \/ TailReplace \/ StartRunning \/ StartWatcher \/ StopWatcher
    \/ TailNotify

SpecTail == InitTail /\ [][NextTail]_vars

\* C35: a notification never moves the stored offset of the file back, also
\* when the file has been emptied or replaced by a shorter one since the
\* last read; no step of a handler's life does.
C35_OffsetMonotonic ==
    [][handler'.exists /\ handler.exists /\ wghost'.starts = wghost.starts
          => DictGet(handler'.positions, WatchedPath, 0)
                >= DictGet(handler.positions, WatchedPath, 0)]_vars

\* a notification has found the file shorter than the stored offset and has
\* left the offset where it was
C35_Witness ==
    /\ wghost.last = "notify" /\ handler.exists
    /\ StoredOffset > Len(file) /\ file # <<>>

\* C37: start() on a running watcher changes nothing, and once the watcher
\* has been stopped and started again no document stored before the stop
\* has been stored once more.
C37_RestartNoDuplicates ==
    /\ [][(running /\ wghost'.last = "start_running")
             => UNCHANGED <<storeVars, histVars, file, handler, observer, running>>]_vars
    /\ [](\A k \in TailIds :
            (wghost.stops > 0 /\ wghost.atStop[k] > 0) => wghost.count[k] = wghost.atStop[k])

----------------------------------------------------------------------------
(* SpecBackfill: _load_existing_files on the content of one file, next to  *)
(* what _process_file makes of the same content read from offset 0         *)

\* the line loop of _load_existing_files: a line that is not JSON is
\* skipped, there is no second attempt on the whole content; a value that
\* is not an object makes _parse_and_store raise, which `except Exception`
\* around the file catches
RECURSIVE load_lines(_, _, _)
load_lines(st, lines, stem) ==
    IF lines = <<>> THEN [st |-> st, handed |-> <<>>, aborted |-> FALSE]
    ELSE LET line == Head(lines)
             v == JsonValue(line)
         IN IF Strip(line) = <<>> THEN load_lines(st, Tail(lines), stem)
            ELSE IF v.ok /\ v.kind # "object"
              THEN [st |-> st, handed |-> << [doc |-> 0, mode |-> "line"] >>, aborted |-> TRUE]
            ELSE IF v.ok
              THEN LET rest == load_lines(parse_and_store(st, Document(v.doc), stem),
                                          Tail(lines), stem)
                   IN [rest EXCEPT !.handed = << [doc |-> v.doc, mode |-> "line"] >> \o @]
            ELSE load_lines(st, Tail(lines), stem)

\* the entities a run added to the store st0, per kind
AddedTo(st0, st1) ==
    [span   |-> SubSeq(st1.hSpans, Len(st0.hSpans) + 1, Len(st1.hSpans)),
     log    |-> SubSeq(st1.hLogs, Len(st0.hLogs) + 1, Len(st1.hLogs)),
     metric |-> SubSeq(st1.hMetrics, Len(st0.hMetrics) + 1, Len(st1.hMetrics))]

\* start() finds a file with this content; dout notes what the backfill
\* added and what a notification reading the same content from offset 0
\* would have added to the same store
BackfillFile ==
    \E ls \in Chunks :
        LET content == JoinLines(ls)
            loaded == load_lines(StoreVal, SplitLines(Strip(content)), ChunkStem)
            tailed == process_chunk(StoreVal, content, ChunkStem)
            n == IF din.kind = "none" THEN 0 ELSE din.n
        IN /\ din.kind \in {"none", "backfill"}
           /\ n < MaxChunks
           /\ SetStore(loaded.st)
           /\ din' = [kind |-> "backfill", content |-> content, n |-> n + 1]
           /\ dout' = [before |-> HistoryLengths,
                       backfill |-> AddedTo(StoreVal, loaded.st),
                       tail |-> AddedTo(StoreVal, tailed.st)]
           /\ UNCHANGED <<ret, concVars, watchVars, receiver, rpc>>

SpecBackfill == InitDecode /\ [][BackfillFile]_vars

\* C36: the backfill has added to the store the entities a notification
\* reading the same content from offset 0 would have added.
C36_BackfillAsTail ==
    din.kind = "backfill" =>
        /\ dout.backfill = dout.tail
        /\ \A kind \in {"span", "log", "metric"} : AddedOfKind(kind) = dout.tail[kind]

----------------------------------------------------------------------------
(* SpecReads: get_errors and analyze_incident, which read the store more   *)
(* than once, while other threads add and clear.  Each `with self._lock`   *)
(* block of the store is one step (C2, C14); the steps of the reading      *)
(* caller are its successive store calls.                                  *)

Reader == "caller1"
ReadSince == 1                   \* utcnow() - timedelta(minutes=since_minutes)
ReadOps == {"get_errors", "analyze_incident"}
NoRead == [op |-> "none", error_spans |-> <<>>, error_logs |-> <<>>,
           all_spans |-> <<>>, all_logs |-> <<>>, seen |-> {}]
\* the two sequences get_errors reads, as they are now
Held == [spans |-> spans, logs |-> logs]
HeldNext == [spans |-> spans', logs |-> logs']

InitReads ==
    /\ StoreInit /\ ret = NoRet
    /\ lock = None /\ committed = <<>> /\ calls = 0
    /\ pc = [t \in {Reader} |-> "idle"]
    /\ loc = [t \in {Reader} |-> NoRead]
    /\ WatchIdle /\ DecIdle

\* the states of the store a call in progress has lived through
Seen == IF pc[Reader] = "idle" THEN loc ELSE [loc EXCEPT ![Reader].seen = @ \cup {HeldNext}]

\* another thread completes add_span / add_log / clear()
WriterAddSpan ==
    \E s \in ConcSpanInputs :
        /\ calls < MaxCalls /\ ret = NoRet
        /\ add_span(s)
        /\ calls' = calls + 1 /\ loc' = Seen
        /\ UNCHANGED <<ret, lock, pc, committed, watchVars, decVars>>
WriterAddLog ==
    \E l \in ConcLogInputs :
        /\ calls < MaxCalls /\ ret = NoRet
        /\ add_log(l)
        /\ calls' = calls + 1 /\ loc' = Seen
        /\ UNCHANGED <<ret, lock, pc, committed, watchVars, decVars>>
WriterClear ==
    /\ calls < MaxCalls /\ ret = NoRet
    /\ clear
    /\ calls' = calls + 1 /\ loc' = Seen
    /\ UNCHANGED <<ret, lock, pc, committed, watchVars, decVars>>

\* the caller enters get_errors or the analyze_incident branch of call_tool
ReadCall ==
    \E op \in ReadOps :
        /\ pc[Reader] = "idle" /\ calls < MaxCalls /\ ret = NoRet
        /\ loc' = [loc EXCEPT ![Reader] = [NoRead EXCEPT !.op = op, !.seen = {Held}]]
        /\ pc' = [pc EXCEPT ![Reader] = "error_spans"]
        /\ calls' = calls + 1
        /\ UNCHANGED <<storeVars, histVars, ret, lock, committed, watchVars, decVars>>

ErrorLimit == IF loc[Reader].op = "get_errors" THEN DefaultLimit ELSE AnalyzeErrorLimit

\* error_spans = self.get_recent_spans(limit=limit, errors_only=True, since=since)
ReadErrorSpans ==
    /\ pc[Reader] = "error_spans"
    /\ loc' = [loc EXCEPT ![Reader].error_spans =
                  RecentSpans(spans, ErrorLimit, None, TRUE, ReadSince)]
    /\ pc' = [pc EXCEPT ![Reader] = "error_logs"]
    /\ UNCHANGED <<storeVars, histVars, ret, lock, committed, calls, watchVars, decVars>>

\* error_logs = self.get_recent_logs(limit=limit, errors_only=True, since=since)
ReadErrorLogs ==
    /\ pc[Reader] = "error_logs"
    /\ loc' = [loc EXCEPT ![Reader].error_logs =
                  RecentLogs(logs, ErrorLimit, None, None, TRUE, ReadSince)]
    /\ pc' = [pc EXCEPT ![Reader] =
                 IF loc[Reader].op = "get_errors" THEN "return" ELSE "all_spans"]
    /\ UNCHANGED <<storeVars, histVars, ret, lock, committed, calls, watchVars, decVars>>

\* all_spans = store.get_recent_spans(limit=200, since=since)
ReadAllSpans ==
    /\ pc[Reader] = "all_spans"
    /\ loc' = [loc EXCEPT ![Reader].all_spans =
                  RecentSpans(spans, AnalyzeSpanLimit, None, FALSE, ReadSince)]
    /\ pc' = [pc EXCEPT ![Reader] = "all_logs"]
    /\ UNCHANGED <<storeVars, histVars, ret, lock, committed, calls, watchVars, decVars>>

\* all_logs = store.get_recent_logs(limit=200, since=since)
ReadAllLogs ==
    /\ pc[Reader] = "all_logs"
    /\ loc' = [loc EXCEPT ![Reader].all_logs =
                  RecentLogs(logs, AnalyzeSpanLimit, None, None, FALSE, ReadSince)]
    /\ pc' = [pc EXCEPT ![Reader] = "return"]
    /\ UNCHANGED <<storeVars, histVars, ret, lock, committed, calls, watchVars, decVars>>

\* the dict get_errors returns, or the summary of the analyze_incident report
ReadReturn ==
    /\ pc[Reader] = "return"
    /\ LET l == loc[Reader] IN
       ret' = [op |-> l.op, seen |-> l.seen,
               value |->
                  IF l.op = "get_errors"
                    THEN ErrorsValue(l.error_spans, l.error_logs, ReadSince)
                    ELSE [total_spans |-> Len(l.all_spans),
                          total_logs |-> Len(l.all_logs),
                          error_spans |-> Len(l.error_spans),
                          error_logs |-> Len(l.error_logs),
                          error_rate_percent |->
                              ErrorRate(Len(l.error_spans), Len(l.all_spans))]]
    /\ pc' = [pc EXCEPT ![Reader] = "idle"]
    /\ loc' = [loc EXCEPT ![Reader] = NoRead]
    /\ UNCHANGED <<storeVars, histVars, lock, committed, calls, watchVars, decVars>>

NextReads ==
    \/ WriterAddSpan \/ WriterAddLog \/ WriterClear
    \/ ReadCall \/ ReadErrorSpans \/ ReadErrorLogs \/ ReadAllSpans \/ ReadAllLogs
    \/ ReadReturn \/ Return

SpecReads == InitReads /\ [][NextReads]_vars

\* C31: the two lists a get_errors call returned were both taken from one
\* state the store was in between the call's start and its return.
C31_ErrorsOneState ==
    ret.op = "get_errors" =>
        \E h \in ret.seen :
            /\ ret.value.error_spans = RecentSpans(h.spans, DefaultLimit, None, TRUE, ReadSince)
            /\ ret.value.error_logs
                  = RecentLogs(h.logs, DefaultLimit, None, None, TRUE, ReadSince)

\* C32: the report of analyze_incident has an error rate between 0 and 100
\* percent (in hundredths) and no more error spans than spans.
C32_RateInRange ==
    ret.op = "analyze_incident" =>
        /\ ret.value.error_rate_percent >= 0
        /\ ret.value.error_rate_percent <= 10000
        /\ ret.value.error_spans <= ret.value.total_spans

----------------------------------------------------------------------------
(* SpecLocks: the two locks together.  Notification threads run            *)
(* _process_file under the handler's lock and add the spans of their chunk *)
(* one by one, the wire receiver adds the spans of an Export batch one by  *)
(* one, a caller reads; every add_span and every read takes the store's    *)
(* lock for itself.                                                        *)

WireThread  == "wire"
LockThreads == Notifiers \cup {WireThread, Reader}
NoWork == [op |-> "none", todo |-> <<>>, snap |-> <<>>]

\* the spans of the n-th chunk or batch of a producer, in the order they
\* are decoded: trace_id names the producer, start_time numbers them
Batch(producer, n) ==
    [i \in 1 .. MaxLines |-> Span(producer, "A", MaxLines * (n - 1) + i, "OK")]
BatchOf(span) == (span.start_time - 1) \div MaxLines

InitLocks ==
    /\ StoreInit /\ ret = NoRet
    /\ lock = None /\ hlock = None
    /\ pc = [t \in LockThreads |-> "idle"]
    /\ loc = [t \in LockThreads |-> NoWork]
    /\ committed = <<>> /\ calls = 0
    /\ file = <<>> /\ handler = [exists |-> FALSE, positions |-> <<>>]
    /\ observer = FALSE /\ running = FALSE
    /\ wpc = <<>> /\ wloc = <<>>
    /\ wghost = [file |-> 0, wire |-> 0]
    /\ DecIdle

\* a notification that takes the store's lock before the handler's
FileEvent_storeFirst(t) ==
    /\ t \in Notifiers /\ pc[t] = "idle" /\ calls < MaxCalls
    /\ LockFree(t)
    /\ lock' = t
    /\ pc' = [pc EXCEPT ![t] = "hwait"]
    /\ loc' = [loc EXCEPT ![t] = [NoWork EXCEPT !.op = "chunk"]]
    /\ calls' = calls + 1
    /\ UNCHANGED <<storeVars, histVars, ret, committed, watchVars, decVars>>

\* on_created / on_modified: _process_file up to `with self._lock`
FileEvent(t) ==
    /\ t \in Notifiers /\ pc[t] = "idle" /\ calls < MaxCalls
    /\ pc' = [pc EXCEPT ![t] = "hwait"]
    /\ loc' = [loc EXCEPT ![t] = [NoWork EXCEPT !.op = "chunk"]]
    /\ calls' = calls + 1
    /\ UNCHANGED <<storeVars, histVars, ret, lock, committed, watchVars, decVars>>

\* `with self._lock` of the handler (threading.Lock), the read of the new
\* content and its decoding into spans
HandlerAcquire(t) ==
    /\ pc[t] = "hwait" /\ hlock = None
    /\ hlock' = t
    /\ wghost' = [wghost EXCEPT !.file = @ + 1]
    /\ loc' = [loc EXCEPT ![t].todo = Batch("F", wghost.file + 1)]
    /\ pc' = [pc EXCEPT ![t] = "lwait"]
    /\ UNCHANGED <<storeVars, histVars, ret, lock, committed, calls, file, handler, observer,
                   running, wpc, wloc, decVars>>

\* TraceServiceServicer.Export: the request is decoded into spans
WireExport(t) ==
    /\ t = WireThread /\ pc[t] = "idle" /\ calls < MaxCalls
    /\ wghost' = [wghost EXCEPT !.wire = @ + 1]
    /\ loc' = [loc EXCEPT ![t] = [NoWork EXCEPT !.op = "export",
                                               !.todo = Batch("W", wghost.wire + 1)]]
    /\ pc' = [pc EXCEPT ![t] = "lwait"]
    /\ calls' = calls + 1
    /\ UNCHANGED <<storeVars, histVars, ret, lock, committed, file, handler, observer,
                   running, hlock, wpc, wloc, decVars>>

\* a caller calls get_recent_spans
QueryCall(t) ==
    /\ t = Reader /\ pc[t] = "idle" /\ calls < MaxCalls
    /\ loc' = [loc EXCEPT ![t] = [NoWork EXCEPT !.op = "query"]]
    /\ pc' = [pc EXCEPT ![t] = "lwait"]
    /\ calls' = calls + 1
    /\ UNCHANGED <<storeVars, histVars, ret, lock, committed, watchVars, decVars>>

\* `with self._lock` of the store (threading.RLock)
StoreAcquire(t) ==
    /\ pc[t] = "lwait" /\ LockFree(t)
    /\ lock' = t
    /\ pc' = [pc EXCEPT ![t] = "in"]
    /\ UNCHANGED <<storeVars, histVars, ret, loc, committed, calls, watchVars, decVars>>

\* add_span putting the span at the head of the sequence
StoreStep_appendleft(t) ==
    /\ pc[t] = "in"
    /\ IF loc[t].op = "query"
         THEN /\ loc' = [loc EXCEPT ![t].snap = spans]
              /\ UNCHANGED <<storeVars, histVars>>
         ELSE /\ spans' = SubSeq(<< Head(loc[t].todo) >> \o spans, 1, Min(Len(spans) + 1, MaxSpans))
              /\ services' = services \cup {Head(loc[t].todo).service_name}
              /\ hSpans' = Append(hSpans, Head(loc[t].todo))
              /\ UNCHANGED <<logs, metrics, hLogs, hMetrics>>
              /\ loc' = [loc EXCEPT ![t].todo = Tail(@)]
    /\ pc' = [pc EXCEPT ![t] = "lrel"]
    /\ UNCHANGED <<ret, lock, committed, calls, watchVars, decVars>>

\* the body of add_span for the next span of the chunk or batch, or
\* `spans = list(self._spans)` of a read
StoreStep(t) ==
    /\ pc[t] = "in"
    /\ IF loc[t].op = "query"
         THEN /\ loc' = [loc EXCEPT ![t].snap = spans]
              /\ UNCHANGED <<storeVars, histVars>>
         ELSE /\ add_span(Head(loc[t].todo))
              /\ loc' = [loc EXCEPT ![t].todo = Tail(@)]
    /\ pc' = [pc EXCEPT ![t] = "lrel"]
    /\ UNCHANGED <<ret, lock, committed, calls, watchVars, decVars>>

\* leaving `with self._lock` of the store: on to the next span, to the end
\* of `with self._lock` of the handler, or back to the caller
StoreRelease(t) ==
    /\ pc[t] = "lrel"
    /\ lock' = None
    /\ pc' = [pc EXCEPT ![t] = IF loc[t].todo # <<>> THEN "lwait"
                               ELSE IF loc[t].op = "chunk" THEN "hrel" ELSE "idle"]
    /\ loc' = [loc EXCEPT ![t] = IF loc[t].todo = <<>> /\ loc[t].op # "chunk" THEN NoWork ELSE @]
    /\ UNCHANGED <<storeVars, histVars, ret, committed, calls, watchVars, decVars>>

\* leaving `with self._lock` of the handler; _process_file returns
HandlerRelease(t) ==
    /\ pc[t] = "hrel"
    /\ hlock' = None
    /\ pc' = [pc EXCEPT ![t] = "idle"]
    /\ loc' = [loc EXCEPT ![t] = NoWork]
    /\ UNCHANGED <<storeVars, histVars, ret, lock, committed, calls, file, handler, observer,
                   running, wpc, wloc, wghost, decVars>>

LockThreadRuns(t) ==
    \/ HandlerAcquire(t) \/ StoreAcquire(t) \/ StoreStep(t) \/ StoreRelease(t)
    \/ HandlerRelease(t)

NextLocks ==
    \E t \in LockThreads :
        \/ FileEvent(t) \/ WireExport(t) \/ QueryCall(t)
        \/ HandlerAcquire(t) \/ StoreAcquire(t) \/ StoreStep(t) \/ StoreRelease(t)
        \/ HandlerRelease(t)

SpecLocks == InitLocks /\ [][NextLocks]_vars

\* fair scheduling: a statement that stays ready to run is run, and a
\* thread waiting for a lock takes it once the lock stays free
SpecLocksFair ==
    /\ SpecLocks
    /\ \A t \in LockThreads : WF_vars(LockThreadRuns(t))

C34_NoDeadlock ==
    /\ [](\A t \in LockThreads : pc[t] = "hwait" => lock # t)
    /\ [](\A t \in Notifiers : lock = t => hlock = t)
    /\ \A t \in LockThreads : (pc[t] = "hwait") ~> (hlock = t)
    /\ \A t \in LockThreads : (pc[t] = "lwait") ~> (lock = t)

\* one notification waits for the handler's lock while the other, holding
\* it, waits for the store's lock that the wire receiver holds
C34_Witness ==
    \E t, u \in Notifiers :
        /\ pc[t] = "hwait" /\ hlock = u /\ pc[u] = "lwait" /\ lock = WireThread

====
